---- MODULE Spec2Model ----
(***************************************************************************)
(* Price-feeder oracle: the vote scheduler (Oracle.tick), the per-tick     *)
(* aggregation (Oracle.SetPrices) with its concurrent provider fetches,    *)
(* and the cross-rate resolver (convertTickersToUSD) with the deviation    *)
(* filter and the VWAP.                                                    *)
(*                                                                         *)
(* Times are whole seconds.  Decimals (sdk.Dec) are integers counting      *)
(* 1/DecUnit.  Go maps are TLA+ functions; a nil map and an empty map are   *)
(* both the function with the empty domain (the code only ranges over and  *)
(* takes len() of the maps it may hold as nil).                            *)
(***************************************************************************)
EXTENDS Integers, Sequences, FiniteSets, TLC

\* ------------------------------------------------------------------ bounds

\* fractional decimal digits kept by the model's sdk.Dec
DecDigits == 1
\* number of ticks of the Start loop that are explored
MaxTicks == 3
\* the orders 0..MaxOrder of a range over a map are explored: every order of
\* a map of three keys
MaxOrder == 5

\* ------------------------------------------------------- program constants

\* tickerSleep = 1000 * time.Millisecond, in seconds
tickerSleep == 1
\* vote_period = "5s"
VotePeriod == 5
\* maxConversions := 6
maxConversions == 6
\* minProviders = 3 when no override is configured
defaultMinProviders == 3

\* a value that may be nil (a pointer, an sdk.Dec that may be unset, a result
\* next to an error) is a sequence: << >> for nil, <<v>> for the value v
Nil == << >>

Some(v) == <<v>>

Val(o) == o[1]

EmptyMap == [x \in {} |-> 0]

Put(m, k, v) == [x \in (DOMAIN m) \cup {k} |-> IF x = k THEN v ELSE m[x]]

\* ---------------------------------------------------------------- sdk.Dec

DecUnit == 10 ^ DecDigits

NewDec(n) == n * DecUnit

\* the quotient q of a division by d with remainder r, rounded half to even
RoundHalfEven(q, r, d) ==
    IF (2 * r > d) \/ (2 * r = d /\ q % 2 = 1) THEN q + 1 ELSE q

\* n / d rounded half to even (sdk.Dec rounds products and quotients so)
RoundDiv(n, d) ==
    IF n < 0 THEN -RoundHalfEven((-n) \div d, (-n) % d, d)
    ELSE RoundHalfEven(n \div d, n % d, d)

DecMul(a, b) == RoundDiv(a * b, DecUnit)

DecQuo(a, b) == RoundDiv(a * DecUnit, b)

\* the largest m in lo..hi with m * m <= n
RECURSIVE SqrtSearch(_, _, _)
SqrtSearch(n, lo, hi) ==
    IF lo >= hi THEN lo
    ELSE LET mid == (lo + hi + 1) \div 2
         IN IF mid <= n \div mid THEN SqrtSearch(n, mid, hi)
            ELSE SqrtSearch(n, lo, mid - 1)

\* the square root of a non-negative decimal, to the model's precision
DecSqrt(a) == SqrtSearch(a * DecUnit, 0, a * DecUnit + 1)

\* ------------------------------------------------------------ types, order

TickerPrice(price, volume, time) == [Price |-> price, Volume |-> volume, Time |-> time]

\* types.TickerPrice{}: the zero value (nil decimals, the zero time); the
\* tickers the adapters build have a non-zero Time
ZeroTicker == TickerPrice(0, 0, 0)

CurrencyPair(base, quote) == [Base |-> base, Quote |-> quote]

\* CurrencyPair.String()
PairString(pair) == pair.Base \o pair.Quote

\* the strings the model compares, in Go's (bytewise) string order
StringOrder ==
    <<"ATOM", "ATOMUSD", "ATOMUSDT", "BTC", "BTCATOM", "BTCUSD", "BTCUSDT", "C1C2", "C2C3", "C3C4", "C4C5",
      "C5C6", "C6C7", "C7USD", "USDT", "USDTUSD">>

StringRank(s) == CHOOSE i \in 1..Len(StringOrder) : StringOrder[i] = s

StringLess(a, b) == StringRank(a) < StringRank(b)

RECURSIVE SetToSeq(_)
SetToSeq(S) ==
    IF S = {} THEN << >>
    ELSE LET x == CHOOSE y \in S : TRUE IN <<x>> \o SetToSeq(S \ {x})

RECURSIVE SumSeq(_)
SumSeq(s) == IF s = << >> THEN 0 ELSE Head(s) + SumSeq(Tail(s))

\* a range over the keys S of a Go map: the runtime picks the order, and
\* order \in Nat numbers the orders (the key taken first is the one at
\* order % Cardinality(S), the rest are ranged over by order \div Cardinality(S))
RECURSIVE RangeOver(_, _)
RangeOver(S, order) ==
    IF S = {} THEN << >>
    ELSE <<SetToSeq(S)[(order % Cardinality(S)) + 1]>>
         \o RangeOver(S \ {SetToSeq(S)[(order % Cardinality(S)) + 1]},
                      order \div Cardinality(S))

\* the values of a map as the list a range over it appends them to
MapValues(m, order) == [i \in 1..Cardinality(DOMAIN m) |-> m[RangeOver(DOMAIN m, order)[i]]]

\* ------------------------------------------------ deviation filter and VWAP

\* var defaultDeviationThreshold = sdk.MustNewDecFromStr("1.0")
defaultDeviationThreshold == NewDec(1)

\* the population standard deviation of prices around their mean
DeviationAround(prices, mean) ==
    DecSqrt(RoundDiv(SumSeq([i \in 1..Len(prices) |->
                                DecMul(prices[i] - mean, prices[i] - mean)]),
                     Len(prices)))

\* StandardDeviation(prices): (deviation, mean, err); indeterminate for fewer
\* than 3 samples
StandardDeviation(prices) ==
    IF Len(prices) < 3
    THEN [deviation |-> 0, mean |-> 0, err |-> TRUE]
    ELSE [deviation |-> DeviationAround(prices, RoundDiv(SumSeq(prices), Len(prices))),
          mean |-> RoundDiv(SumSeq(prices), Len(prices)),
          err |-> FALSE]

\* a test that leaves out the two ends of the interval
isBetween_Open(p, mean, margin) == p > mean - margin /\ p < mean + margin

isBetween(p, mean, margin) == p >= mean - margin /\ p <= mean + margin

\* the prices of a list of tickers
TickerPricesOf(tickers) == [i \in 1..Len(tickers) |-> tickers[i].Price]

\* FilterTickerDeviations once the deviation sd is in hand
FilterWithDeviation(tickerPrices, threshold, sd) ==
    IF sd.err
    THEN [filtered |-> tickerPrices, err |-> TRUE]
    ELSE [filtered |->
             [p \in {q \in DOMAIN tickerPrices :
                       isBetween(tickerPrices[q].Price, sd.mean,
                                 DecMul(sd.deviation, threshold))} |-> tickerPrices[p]],
          err |-> FALSE]

\* FilterTickerDeviations: (filtered, err)
FilterTickerDeviations(tickerPrices, deviationThreshold, order) ==
    FilterWithDeviation(tickerPrices,
                        IF deviationThreshold = Nil
                        THEN defaultDeviationThreshold ELSE Val(deviationThreshold),
                        StandardDeviation(TickerPricesOf(MapValues(tickerPrices, order))))

\* the average of the prices weighted by the volumes, by equal weights when
\* the volumes sum to zero
WeightedAverage(tickers, volumeSum) ==
    DecQuo(SumSeq([i \in 1..Len(tickers) |->
                      DecMul(tickers[i].Price,
                             IF volumeSum = 0 THEN NewDec(1) ELSE tickers[i].Volume)]),
           IF volumeSum = 0 THEN NewDec(Len(tickers)) ELSE volumeSum)

\* ComputeVWAP(tickers): (rate, err)
ComputeVWAP(tickers) ==
    IF Len(tickers) = 0
    THEN [rate |-> 0, err |-> TRUE]
    ELSE [rate |-> WeightedAverage(tickers,
                       SumSeq([i \in 1..Len(tickers) |-> tickers[i].Volume])),
          err |-> FALSE]

\* a rate that is the price of the ticker the range meets first
vwapRate_FirstRanged(rates, order) ==
    IF DOMAIN rates = {} THEN ComputeVWAP(<< >>)
    ELSE [rate |-> MapValues(rates, order)[1].Price, err |-> FALSE]

vwapRate(rates, order) == ComputeVWAP(MapValues(rates, order))

\* ------------------------------------------------------ cross-rate resolver

Lookup(m, k, default) == IF k \in DOMAIN m THEN m[k] ELSE default

\* m[k] of a map of decimals: the unset sdk.Dec{} when k is missing
LookupDec(m, k) == IF k \in DOMAIN m THEN Some(m[k]) ELSE Nil

\* provider -> symbol -> ticker regrouped as symbol -> provider -> ticker
PricesBySymbol(providerPrices) ==
    LET symbols == UNION {DOMAIN providerPrices[p] : p \in DOMAIN providerPrices}
    IN [s \in symbols |->
          [p \in {q \in DOMAIN providerPrices : s \in DOMAIN providerPrices[q]} |->
              providerPrices[p][s]]]

\* the configured pairs, each symbol once
UniquePairs(providerPairs, order) ==
    RangeOver(UNION {{providerPairs[p][i] : i \in 1..Len(providerPairs[p])} :
                     p \in DOMAIN providerPairs}, order)

RECURSIVE InsertPair(_, _)
InsertPair(pair, sorted) ==
    IF sorted = << >> THEN <<pair>>
    ELSE IF StringLess(PairString(pair), PairString(Head(sorted)))
         THEN <<pair>> \o sorted
         ELSE <<Head(sorted)>> \o InsertPair(pair, Tail(sorted))

\* sort.Slice(pairs, by String())
RECURSIVE SortPairs(_)
SortPairs(pairs) ==
    IF pairs = << >> THEN << >> ELSE InsertPair(Head(pairs), SortPairs(Tail(pairs)))

\* a pair whose base has a USD rate is put in front of the list built so
\* far, any other pair at its end
RECURSIVE Reorder(_, _, _)
Reorder(pairs, usdRates, reordered) ==
    IF pairs = << >> THEN reordered
    ELSE Reorder(Tail(pairs), usdRates,
                 IF Head(pairs).Base \in DOMAIN usdRates
                 THEN <<Head(pairs)>> \o reordered
                 ELSE Append(reordered, Head(pairs)))

\* an addRates that takes the new rate of a provider that has one already
addRates_Overwrites(rates, tickers) ==
    [p \in (DOMAIN rates) \cup (DOMAIN tickers) |->
        IF p \in DOMAIN tickers THEN tickers[p] ELSE rates[p]]

\* addRates: a provider's rate already in rates is kept
addRates(rates, tickers) ==
    [p \in (DOMAIN rates) \cup (DOMAIN tickers) |->
        IF p \in DOMAIN rates THEN rates[p] ELSE tickers[p]]

\* the state of one pass: st = [usdRates, unresolved, err]

\* "unresolved = append(unresolved, currencyPair)"
Park(st, currencyPair) == [st EXCEPT !.unresolved = Append(@, currencyPair)]

\* "if len(newRates) > 0": addRates into usdRates[base]
MergeNewRates(st, base, newRates) ==
    IF DOMAIN newRates = {} THEN st
    ELSE [st EXCEPT !.usdRates =
             Put(st.usdRates, base,
                 addRates(Lookup(st.usdRates, base, EmptyMap), newRates))]

\* a conversion that takes the quoted prices as they are
ConvertWithRate_KeepsQuote(st, currencyPair, tickerPrices, v) ==
    IF v.err THEN [st EXCEPT !.err = TRUE]
    ELSE MergeNewRates(st, currencyPair.Base, tickerPrices)

\* the pair's tickers times the rate v of its quote; the error of vwapRate
\* ends the resolution
ConvertWithRate(st, currencyPair, tickerPrices, v) ==
    IF v.err THEN [st EXCEPT !.err = TRUE]
    ELSE MergeNewRates(st, currencyPair.Base,
             [p \in DOMAIN tickerPrices |->
                 TickerPrice(DecMul(tickerPrices[p].Price, v.rate),
                             tickerPrices[p].Volume, tickerPrices[p].Time)])

\* the pair after the filter f of its quote's rates
ConvertFiltered(st, currencyPair, tickerPrices, rates, f, order) ==
    IF f.err /\ Cardinality(DOMAIN rates) >= 3 THEN Park(st, currencyPair)
    ELSE ConvertWithRate(st, currencyPair, tickerPrices, vwapRate(f.filtered, order))

\* a conversion that asks only for some USD rate of the quote
ConvertQuoted_NoMinimum(st, currencyPair, tickerPrices, rates, minProviders, maxDeviation, order) ==
    IF currencyPair.Quote \notin DOMAIN st.usdRates
    THEN Park(st, currencyPair)
    ELSE ConvertFiltered(st, currencyPair, tickerPrices, rates,
                         FilterTickerDeviations(rates, maxDeviation, order), order)

\* a pair that is not quoted in USD
ConvertQuoted(st, currencyPair, tickerPrices, rates, minProviders, maxDeviation, order) ==
    IF currencyPair.Quote \notin DOMAIN st.usdRates
          \/ Cardinality(DOMAIN rates) < minProviders
    THEN Park(st, currencyPair)
    ELSE ConvertFiltered(st, currencyPair, tickerPrices, rates,
                         FilterTickerDeviations(rates, maxDeviation, order), order)

\* the body of the loop over the pairs of one pass
ConvertPair(currencyPair, st, bySymbol, deviationThresholds, providerMinOverrides, order) ==
    IF st.err THEN st
    ELSE IF currencyPair.Quote = "USD"
    THEN MergeNewRates(st, currencyPair.Base,
                       Lookup(bySymbol, PairString(currencyPair), EmptyMap))
    ELSE ConvertQuoted(st, currencyPair,
                       Lookup(bySymbol, PairString(currencyPair), EmptyMap),
                       Lookup(st.usdRates, currencyPair.Quote, EmptyMap),
                       Lookup(providerMinOverrides, currencyPair.Quote, defaultMinProviders),
                       LookupDec(deviationThresholds, currencyPair.Quote), order)

RECURSIVE ConvertPairs(_, _, _, _, _, _)
ConvertPairs(pairs, st, bySymbol, deviationThresholds, providerMinOverrides, order) ==
    IF pairs = << >> THEN st
    ELSE ConvertPairs(Tail(pairs),
                      ConvertPair(Head(pairs), st, bySymbol,
                                  deviationThresholds, providerMinOverrides, order),
                      bySymbol, deviationThresholds, providerMinOverrides, order)

RECURSIVE ConvertLoop(_, _, _, _, _, _, _)

\* the end of pass i, which left st of its n pairs: stop on an error, when
\* nothing is unresolved or when nothing was resolved, else pass i + 1
EndOfPass(i, n, st, bySymbol, deviationThresholds, providerMinOverrides, order) ==
    IF st.err THEN [usdRates |-> st.usdRates, err |-> TRUE, passes |-> i + 1]
    ELSE IF Len(st.unresolved) = 0 \/ Len(st.unresolved) = n
    THEN [usdRates |-> st.usdRates, err |-> FALSE, passes |-> i + 1]
    ELSE ConvertLoop(i + 1, st.unresolved, st.usdRates, bySymbol,
                     deviationThresholds, providerMinOverrides, order)

\* conversion passes that go on for as long as pairs get resolved
ConvertLoop_Uncapped(i, pending, usdRates, bySymbol, deviationThresholds, providerMinOverrides, order) ==
    EndOfPass(i, Len(pending),
              ConvertPairs(Reorder(SortPairs(pending), usdRates, << >>),
                           [usdRates |-> usdRates, unresolved |-> << >>, err |-> FALSE],
                           bySymbol, deviationThresholds, providerMinOverrides, order),
              bySymbol, deviationThresholds, providerMinOverrides, order)

\* the conversion passes: pass i over the pending pairs; the result counts
\* the passes made
ConvertLoop(i, pending, usdRates, bySymbol, deviationThresholds, providerMinOverrides, order) ==
    IF i >= maxConversions THEN [usdRates |-> usdRates, err |-> FALSE, passes |-> i]
    ELSE EndOfPass(i, Len(pending),
                   ConvertPairs(Reorder(SortPairs(pending), usdRates, << >>),
                                [usdRates |-> usdRates, unresolved |-> << >>,
                                 err |-> FALSE],
                                bySymbol, deviationThresholds, providerMinOverrides, order),
                   bySymbol, deviationThresholds, providerMinOverrides, order)

\* a final rate that may be zero
FinalOfRate_KeepsZero(v) ==
    IF v.err THEN Nil ELSE Some(v.rate)

\* the final rate from the VWAP v, Nil when the denom is dropped
FinalOfRate(v) ==
    IF v.err THEN Nil ELSE IF v.rate = 0 THEN Nil ELSE Some(v.rate)

\* a final stage that asks only whether the denom has a minimum
FinalFiltered_AnyCount(denom, f, providerMinOverrides, order) ==
    IF f.err /\ denom \notin DOMAIN providerMinOverrides THEN Nil
    ELSE FinalOfRate(vwapRate(f.filtered, order))

\* the final rate after the filter f of the denom's rates
FinalFiltered(denom, f, providerMinOverrides, order) ==
    IF f.err /\ denom \notin DOMAIN providerMinOverrides THEN Nil
    ELSE IF f.err /\ Cardinality(DOMAIN f.filtered) < providerMinOverrides[denom] THEN Nil
    ELSE FinalOfRate(vwapRate(f.filtered, order))

\* the final rate of one denom, Nil when the denom is dropped
FinalRate(denom, tickers, deviationThresholds, providerMinOverrides, order) ==
    FinalFiltered(denom,
                  FilterTickerDeviations(tickers, LookupDec(deviationThresholds, denom),
                                         order),
                  providerMinOverrides, order)

\* ratesDec: the denoms that have a final rate
RatesDec(finals) == [d \in {x \in DOMAIN finals : finals[x] # Nil} |-> Val(finals[d])]

\* what convertTickersToUSD returns after the conversion passes c
FinalRates(c, deviationThresholds, providerMinOverrides, order) ==
    IF c.err THEN [rates |-> EmptyMap, err |-> TRUE]
    ELSE [rates |-> RatesDec([d \in DOMAIN c.usdRates |->
                                FinalRate(d, c.usdRates[d], deviationThresholds,
                                          providerMinOverrides, order)]),
          err |-> FALSE]

\* convertTickersToUSD: (rates, err), when its ranges over maps run in order
convertTickersToUSD(providerPrices, providerPairs, deviationThresholds, providerMinOverrides, order) ==
    IF DOMAIN providerPrices = {}
    THEN [rates |-> EmptyMap, err |-> FALSE]
    ELSE FinalRates(ConvertLoop(0, UniquePairs(providerPairs, order), EmptyMap,
                                PricesBySymbol(providerPrices),
                                deviationThresholds, providerMinOverrides, order),
                    deviationThresholds, providerMinOverrides, order)

\* GetComputedPrices
GetComputedPrices(providerPrices, providerPairs, deviations, providerMinOverrides, order) ==
    convertTickersToUSD(providerPrices, providerPairs, deviations, providerMinOverrides,
                        order)

\* ------------------------------------------------------------ configuration

\* [[currency_pairs]] of the configuration handed to New
currencyPairs ==
    << [Base |-> "USDT", Quote |-> "USD", Providers |-> <<"kraken", "gate", "huobi">>],
       [Base |-> "ATOM", Quote |-> "USDT", Providers |-> <<"gate">>] >>

\* [[deviation_thresholds]]: USDT = 0.5
deviations == [USDT |-> NewDec(1) \div 2]

\* [[provider_min_overrides]]
providerMinOverrides == [USDT |-> 1, ATOM |-> 1]

\* operator_id, the feeder of every message
OperatorAccount == "0.0.5700506"

Providers == UNION {{cp.Providers[i] : i \in 1..Len(cp.Providers)} :
                    cp \in {currencyPairs[k] : k \in 1..Len(currencyPairs)}}

\* New: providerPairs[provider] lists the pairs that name the provider, in
\* the order of the configuration
RECURSIVE PairsOf(_, _)
PairsOf(p, cps) ==
    IF cps = << >> THEN << >>
    ELSE (IF \E i \in 1..Len(Head(cps).Providers) : Head(cps).Providers[i] = p
          THEN <<CurrencyPair(Head(cps).Base, Head(cps).Quote)>> ELSE << >>)
         \o PairsOf(p, Tail(cps))

providerPairs == [p \in Providers |-> PairsOf(p, currencyPairs)]

\* time.Unix(0, 0), the value tick stores for "no vote period"
UnixEpoch == 0
\* the clock when New runs
StartTime == 100
\* time.Time{}, the value New leaves in previousVotePeriod: year 1
GoZeroTime == UnixEpoch - 10 * StartTime

\* what the adapters may answer to GetTickerPrices: (prices, err).  kraken
\* may fail and still hand back a map; huobi may quote an outlier, and then
\* without a volume (as the adapters that read an order book do)
Tk(price, volume) == TickerPrice(NewDec(price), NewDec(volume), 1)

Responses(p) ==
    CASE p = "kraken" ->
           { [prices |-> [USDTUSD |-> Tk(10, 1)], err |-> FALSE],
             [prices |-> [USDTUSD |-> Tk(10, 1)], err |-> TRUE] }
      [] p = "gate" ->
           { [prices |-> [USDTUSD |-> Tk(10, 1), ATOMUSDT |-> Tk(2, 1)], err |-> FALSE] }
      [] OTHER ->
           { [prices |-> [USDTUSD |-> Tk(10, 1)], err |-> FALSE],
             [prices |-> [USDTUSD |-> Tk(40, 0)], err |-> FALSE] }

\* GenerateSalt: random bytes, a value no earlier call has returned; here the
\* number of the tick that draws it
GenerateSalt(tick) == tick

\* the time from the start of one tick to the start of the next: the tick
\* itself and the sleep of tickerSleep
Steps == {tickerSleep, VotePeriod, 2 * VotePeriod + 1}

\* ------------------------------------------------------- configuration file

\* the names of SupportedProviders the model uses
SupportedProviders == {"kraken", "gate", "huobi", "bitforex", "stride"}

\* those of the names above that the switch of NewProvider has a case for
NewProviderCases == {"kraken", "gate", "huobi"}

\* NewProvider: the error it returns itself, "" when it hands the name to the
\* constructor of an adapter
NewProvider(providerName) ==
    IF providerName \in NewProviderCases THEN [err |-> ""]
    ELSE [err |-> "provider not found"]

\* maxDeviationThreshold = sdk.MustNewDecFromStr("3.0")
maxDeviationThreshold == NewDec(3)

\* a string of a configuration file that is meant as a decimal: a record of
\* whether it is written as a number, its sign, its integer part and the
\* digits of its fraction
DecimalString(numeric, neg, int, frac) ==
    [numeric |-> numeric, neg |-> neg, int |-> int, frac |-> frac]

\* the digits of a fraction as a number
RECURSIVE DigitsValue(_)
DigitsValue(digits) ==
    IF digits = << >> THEN 0
    ELSE 10 * DigitsValue(SubSeq(digits, 1, Len(digits) - 1)) + digits[Len(digits)]

\* sdk.NewDecFromStr: (dec, err); an error for what is not a number and for
\* more fractional digits than the precision
NewDecFromStr(str) ==
    IF ~str.numeric \/ Len(str.frac) > DecDigits
    THEN [dec |-> 0, err |-> TRUE]
    ELSE [dec |-> (IF str.neg THEN -1 ELSE 1)
                   * (str.int * DecUnit
                      + DigitsValue(str.frac) * 10 ^ (DecDigits - Len(str.frac))),
          err |-> FALSE]

\* ParseConfig, the body of its loop over cfg.Deviations: the error returned
\* for a threshold as parsed, "" for none
DeviationError(parsed) ==
    IF parsed.err THEN "deviation thresholds must be numeric"
    ELSE IF parsed.dec > maxDeviationThreshold
    THEN "deviation thresholds must not exceed 3.0"
    ELSE ""

\* the first error of a list of errors, "" when there is none
RECURSIVE FirstError(_)
FirstError(errors) ==
    IF errors = << >> THEN ""
    ELSE IF Head(errors) # "" THEN Head(errors) ELSE FirstError(Tail(errors))

\* ParseConfig once the file is decoded: the error it returns, "" for nil.
\* cfg.required says whether cfg.Validate() finds every required field
ParseConfig(cfg) ==
    FirstError(
        [i \in 1..Len(cfg.providers) |->
            IF cfg.providers[i] \in SupportedProviders THEN ""
            ELSE "unsupported provider"]
        \o [i \in 1..Len(cfg.deviations) |->
               DeviationError(NewDecFromStr(cfg.deviations[i]))]
        \o [i \in 1..Len(cfg.overrides) |->
               IF cfg.overrides[i] < 1 THEN "minimum providers must be greater than 0"
               ELSE ""]
        \o <<IF cfg.required THEN "" ELSE "validation failed">>)

\* ------------------------------------------------------------------- state

VARIABLES
    now,                \* the clock, in seconds
    pc,                 \* Start: "sleep" between ticks; tick: "wait" in the g.Wait()
                        \* of SetPrices, "tick" past SetPrices; "crashed"
    ticks,              \* ticks started so far
    blockHeight,        \* tick: blockHeight := time.Now()
    previousPrevote,    \* o.previousPrevote, Nil or the pending prevote
    previousVotePeriod, \* o.previousVotePeriod
    priceProviders,     \* the names o.priceProviders holds an adapter for
    prices,             \* o.prices, the published snapshot
    providerPrices,     \* SetPrices: the aggregated provider prices of the tick
    requiredRates,      \* SetPrices: the bases of the providers that are fetched
    task,               \* per provider, its fetch task: "none", "select" (waiting in
                        \* its select), "merged", "error", "timeout"
    call,               \* per provider, its GetTickerPrices call as the task saw
                        \* it: "none", returned "ok" or with "err", or, given up
                        \* on at the timeout, still "running" or "returned" late
    missingPrices,      \* SetPrices: the bases of "unable to get prices for"
    published,          \* the messages PutTx has submitted, oldest first
    lastTick,           \* how the last tick ended
    lastPriceSyncTS,    \* o.lastPriceSyncTS
    mtx,                \* o.mtx: the number of readers that hold it, and whether a
                        \* writer holds it
    reader,             \* the status server: "idle", or the method of the oracle
                        \* its handler is in
    ctx,                \* the context Start was given: "live", or "done" once its
                        \* parent has cancelled it
    closer,             \* o.closer: whether Close has been called on it
    history,            \* o.history: the tickers AddTickerPrice has been called with
    abandoned,          \* per provider, the GetTickerPrices calls of earlier ticks
                        \* that were given up on at the timeout and still run
    loop,               \* the locals of a call of convertTickersToUSD that is
                        \* followed pair by pair, Nil when there is none
    input,              \* the arguments of a call of the resolver, the deviation
                        \* filter or the merge on its own, Nil when there is none
    result              \* what that call returned, Nil before it returns

vars == <<now, pc, ticks, blockHeight, previousPrevote, previousVotePeriod,
          priceProviders, prices, providerPrices, requiredRates, call, task,
          missingPrices, published, lastTick, lastPriceSyncTS, mtx, reader, ctx,
          closer, history, abandoned, loop, input, result>>

\* the oracle proper
tickVars == <<now, pc, ticks, blockHeight, previousPrevote, previousVotePeriod,
              priceProviders, prices, providerPrices, requiredRates, call, task,
              missingPrices, published, lastTick, lastPriceSyncTS>>

\* what a tick leaves alone
outside == <<mtx, reader, ctx, closer, history, abandoned, loop, input, result>>

\* New
New ==
    /\ now = StartTime
    /\ pc = "sleep"
    /\ ticks = 0
    /\ blockHeight = StartTime
    /\ previousPrevote = Nil
    /\ previousVotePeriod = GoZeroTime
    /\ priceProviders = {}
    /\ prices = EmptyMap
    /\ providerPrices = EmptyMap
    /\ requiredRates = {}
    /\ call = [p \in Providers |-> "none"]
    /\ task = [p \in Providers |-> "none"]
    /\ missingPrices = {}
    /\ published = << >>
    /\ lastTick = "none"
    /\ lastPriceSyncTS = GoZeroTime
    /\ mtx = [readers |-> 0, writer |-> FALSE]
    /\ closer = FALSE
    /\ history = {}
    /\ abandoned = [p \in Providers |-> 0]

\* the oracle after New; no status server (enable_server = false)
Init ==
    New /\ reader = "idle" /\ ctx = "live" /\ loop = Nil /\ input = Nil /\ result = Nil

\* ------------------------------------------------------------- SetPrices

Bases(pairs) == {pairs[i].Base : i \in 1..Len(pairs)}

\* a merge that starts the aggregated prices anew
MergeTickers_Replaces(aggregated, providerName, returned) ==
    [p \in {providerName} |->
        [x \in {PairString(providerPairs[providerName][i]) :
                   i \in 1..Len(providerPairs[providerName])} \cap DOMAIN returned |->
            returned[x]]]

\* the fetch task after <-ch: the tickers of the provider's pairs that are
\* present and not the zero value go into providerPrices[providerName]
MergeTickers(aggregated, providerName, returned) ==
    LET symbols == {PairString(providerPairs[providerName][i]) :
                       i \in 1..Len(providerPairs[providerName])}
        filtered == {x \in symbols : x \in DOMAIN returned /\ returned[x] # ZeroTicker}
    IN IF filtered = {} THEN aggregated
       ELSE Put(aggregated, providerName, [x \in filtered |-> returned[x]])

\* the cases of the fetch task's select that can proceed once the call has
\* returned r: ch is closed, and errCh holds r's error
ChReady(r) == TRUE

ErrChReady(r) == r.err

\* g.Wait(): all fetch tasks have returned
AllTasksDone == \A p \in Providers : task[p] # "select"

\* a SetPrices that fails when a required base has no price
SetPricesFails_Partial(waitErr, computed) ==
    computed.err \/ DOMAIN computed.rates # requiredRates

\* the error SetPrices returns after g.Wait(): the resolver's
SetPricesFails(waitErr, computed) == computed.err

\* ------------------------------------------------------------------ tick

votingWindowEnd == previousVotePeriod + VotePeriod

nextVotingWindowEnd == votingWindowEnd + VotePeriod

\* a skip test that lets a tick through before the window end
SkipUntilVotingPeriod_Early(height) ==
    previousVotePeriod # UnixEpoch /\ votingWindowEnd > height + VotePeriod

\* "Skip until new voting period"
SkipUntilVotingPeriod(height) ==
    previousVotePeriod # UnixEpoch /\ votingWindowEnd > height

\* a missed-vote test that gives the vote one more vote period
PastVotingPeriod_Late(height) ==
    previousVotePeriod # UnixEpoch /\ nextVotingWindowEnd + VotePeriod < height

\* "If we're past the voting period we needed to hit"
PastVotingPeriod(height) ==
    previousVotePeriod # UnixEpoch /\ nextVotingWindowEnd < height

RECURSIVE InsertCoin(_, _)
InsertCoin(coin, sorted) ==
    IF sorted = << >> THEN <<coin>>
    ELSE IF StringLess(coin.Denom, Head(sorted).Denom)
         THEN <<coin>> \o sorted
         ELSE <<Head(sorted)>> \o InsertCoin(coin, Tail(sorted))

RECURSIVE SortCoins(_)
SortCoins(coins) ==
    IF coins = << >> THEN << >> ELSE InsertCoin(Head(coins), SortCoins(Tail(coins)))

\* GetPrices: the snapshot as sdk.DecCoins
GetPrices(snapshot) ==
    LET ks == SetToSeq(DOMAIN snapshot)
    IN SortCoins([i \in 1..Len(ks) |-> [Denom |-> ks[i], Amount |-> snapshot[ks[i]]]])

\* GenerateExchangeRatesString: the coins sorted by denom, each written as
\* its amount followed by its denom
GenerateExchangeRatesString(coins) ==
    LET sorted == SortCoins(coins)
    IN [i \in 1..Len(sorted) |-> <<sorted[i].Amount, sorted[i].Denom>>]

\* GetAggregateVoteHash: the truncated hash of "salt:exchangeRates:voter"
GetAggregateVoteHash(salt, exchangeRatesStr, voter) ==
    [tmhash |-> <<salt, ":", exchangeRatesStr, ":", voter>>]

\* a prevote message whose hash is that of no salt and no rates
PrevoteMsg_HashOfNothing(hash) ==
    [msg |-> "prevote", Hash |-> GetAggregateVoteHash(0, << >>, OperatorAccount),
     Feeder |-> OperatorAccount]

\* preVoteMsg: the hash and the feeder
PrevoteMsg(hash) == [msg |-> "prevote", Hash |-> hash, Feeder |-> OperatorAccount]

\* a vote that reveals the rates of the tick that votes
VoteMsg_CurrentRates(prevote, exchangeRatesStr) ==
    [msg |-> "vote", Salt |-> prevote.Salt, ExchangeRates |-> exchangeRatesStr,
     Feeder |-> OperatorAccount]

\* voteMsg: what the pending prevote recorded
VoteMsg(prevote, exchangeRatesStr) ==
    [msg |-> "vote", Salt |-> prevote.Salt, ExchangeRates |-> prevote.ExchangeRates,
     Feeder |-> OperatorAccount]

NewPrevote(salt, exchangeRatesStr, height) ==
    [Salt |-> salt, ExchangeRates |-> exchangeRatesStr, SubmitBlockHeight |-> height]

tickLocals == <<providerPrices, requiredRates, call, task>>

\* a select that takes its default case whatever the context
StartSelectsDefault_Always == TRUE

\* Start: the select takes its default case, the one that runs a tick, only
\* when no receive from ctx.Done() is ready
StartSelectsDefault == ctx = "live"

\* Start: when tick has returned, o.lastPriceSyncTS = time.Now(); a step that
\* leaves the tick in SetPrices or past it, or ends the process, writes nothing
StartAfterTick ==
    lastPriceSyncTS' = IF pc' = "sleep" THEN now' ELSE lastPriceSyncTS

\* the tick starts d seconds after the last one and returns at "skipping
\* until next voting period"
TickSkip(d) ==
    /\ pc = "sleep" /\ StartSelectsDefault /\ ticks < MaxTicks
    /\ now' = now + d /\ blockHeight' = now + d /\ ticks' = ticks + 1
    /\ SkipUntilVotingPeriod(now + d)
    /\ lastTick' = "skip"
    /\ UNCHANGED <<pc, previousPrevote, previousVotePeriod, priceProviders, prices,
                   missingPrices, published, tickLocals>>
    /\ StartAfterTick
    /\ UNCHANGED outside

\* the tick enters SetPrices, NewProvider fails for provider failed after the
\* adapters of constructed were made; SetPrices and the tick return the error
TickNewProviderFails(d, failed, constructed) ==
    /\ pc = "sleep" /\ StartSelectsDefault /\ ticks < MaxTicks
    /\ now' = now + d /\ blockHeight' = now + d /\ ticks' = ticks + 1
    /\ ~SkipUntilVotingPeriod(now + d)
    /\ failed \in Providers \ priceProviders
    /\ constructed \subseteq (Providers \ priceProviders) \ {failed}
    /\ priceProviders' = priceProviders \cup constructed
    /\ lastTick' = "error"
    /\ UNCHANGED <<pc, previousPrevote, previousVotePeriod, prices, missingPrices,
                   published, tickLocals>>
    /\ StartAfterTick
    /\ UNCHANGED outside

\* the tick enters SetPrices: the missing adapters are constructed, and a
\* fetch task is started for each provider that had its adapter already
TickFetch(d) ==
    /\ pc = "sleep" /\ StartSelectsDefault /\ ticks < MaxTicks
    /\ now' = now + d /\ blockHeight' = now + d /\ ticks' = ticks + 1
    /\ ~SkipUntilVotingPeriod(now + d)
    /\ priceProviders' = Providers
    /\ requiredRates' = UNION {Bases(providerPairs[p]) : p \in priceProviders}
    /\ providerPrices' = EmptyMap
    /\ call' = [p \in Providers |-> "none"]
    /\ task' = [p \in Providers |-> IF p \in priceProviders THEN "select" ELSE "none"]
    /\ pc' = "wait"
    /\ UNCHANGED <<previousPrevote, previousVotePeriod, prices, missingPrices,
                   published, lastTick>>
    /\ StartAfterTick
    /\ UNCHANGED outside

\* GetTickerPrices of provider p returns r; the fetch task takes case <-ch
\* and merges the prices returned
TaskMerge(p, r) ==
    /\ pc = "wait" /\ task[p] = "select"
    /\ r \in Responses(p) /\ ChReady(r)
    /\ providerPrices' = MergeTickers(providerPrices, p, r.prices)
    /\ task' = [task EXCEPT ![p] = "merged"]
    /\ call' = [call EXCEPT ![p] = IF r.err THEN "err" ELSE "ok"]
    /\ UNCHANGED <<now, pc, ticks, blockHeight, previousPrevote, previousVotePeriod,
                   priceProviders, prices, requiredRates, missingPrices, published,
                   lastTick>>
    /\ StartAfterTick
    /\ UNCHANGED outside

\* GetTickerPrices of provider p returns r; the fetch task takes
\* case err := <-errCh and returns the error
TaskError(p, r) ==
    /\ pc = "wait" /\ task[p] = "select"
    /\ r \in Responses(p) /\ ErrChReady(r)
    /\ task' = [task EXCEPT ![p] = "error"]
    /\ call' = [call EXCEPT ![p] = "err"]
    /\ UNCHANGED <<now, pc, ticks, blockHeight, previousPrevote, previousVotePeriod,
                   priceProviders, prices, providerPrices, requiredRates, missingPrices,
                   published, lastTick>>
    /\ StartAfterTick
    /\ UNCHANGED outside

\* a fetch task that merges what its call has so far when the timeout fires
TaskTimeout_Merges(p) ==
    /\ pc = "wait" /\ task[p] = "select"
    /\ task' = [task EXCEPT ![p] = "timeout"]
    /\ call' = [call EXCEPT ![p] = "running"]
    /\ \E r \in Responses(p) : providerPrices' = MergeTickers(providerPrices, p, r.prices)
    /\ UNCHANGED <<now, pc, ticks, blockHeight, previousPrevote, previousVotePeriod,
                   priceProviders, prices, requiredRates, missingPrices, published,
                   lastTick>>
    /\ StartAfterTick
    /\ UNCHANGED outside

\* the fetch task of p takes case <-time.After(o.providerTimeout) and
\* returns; the call goes on
TaskTimeout(p) ==
    /\ pc = "wait" /\ task[p] = "select"
    /\ task' = [task EXCEPT ![p] = "timeout"]
    /\ call' = [call EXCEPT ![p] = "running"]
    /\ UNCHANGED <<now, pc, ticks, blockHeight, previousPrevote, previousVotePeriod,
                   priceProviders, prices, providerPrices, requiredRates,
                   missingPrices, published, lastTick>>
    /\ StartAfterTick
    /\ UNCHANGED outside

\* a call whose task has timed out returns r: the goroutine stores r, closes
\* ch and ends; nothing reads what it stored
LateReturn(p, r) ==
    /\ pc = "wait" /\ call[p] = "running"
    /\ r \in Responses(p)
    /\ call' = [call EXCEPT ![p] = "returned"]
    /\ UNCHANGED <<now, pc, ticks, blockHeight, previousPrevote, previousVotePeriod,
                   priceProviders, prices, providerPrices, requiredRates, task,
                   missingPrices, published, lastTick>>
    /\ StartAfterTick
    /\ UNCHANGED outside

WaitErr == \E p \in Providers : task[p] \in {"error", "timeout"}

\* the orders of the ranges over maps that are explored
RangeOrders == 0..MaxOrder

\* the orders a tick is explored under: the first and the last of them
TickOrders == {0, MaxOrder}

\* what GetComputedPrices returns for the aggregated prices of the tick when
\* the ranges over maps run in order
ComputedIn(order) ==
    GetComputedPrices(providerPrices, providerPairs, deviations, providerMinOverrides,
                      order)

Computed == ComputedIn(0)

\* SetPrices is in g.Wait() and every fetch task has returned
SetPricesCanReturn == pc = "wait" /\ AllTasksDone

\* the locals of SetPrices are gone when it returns
SetPricesLocalsGone ==
    /\ providerPrices' = EmptyMap /\ requiredRates' = {}
    /\ call' = [p \in Providers |-> "none"] /\ task' = [p \in Providers |-> "none"]

\* a SetPrices that replaces the snapshot before it looks at the resolver's
\* error
SetPricesReturns_Replaces ==
    /\ SetPricesCanReturn
    /\ \E order \in TickOrders : \E computed \in {ComputedIn(order)} :
          /\ prices' = computed.rates
          /\ IF SetPricesFails(WaitErr, computed)
             THEN /\ pc' = "sleep"
                  /\ lastTick' = "error"
                  /\ UNCHANGED missingPrices
             ELSE /\ pc' = "tick"
                  /\ missingPrices' = requiredRates \ DOMAIN computed.rates
                  /\ UNCHANGED lastTick
    /\ SetPricesLocalsGone
    /\ UNCHANGED <<now, ticks, blockHeight, previousPrevote, previousVotePeriod,
                   priceProviders, published>>
    /\ StartAfterTick
    /\ UNCHANGED outside

\* g.Wait() has returned.  SetPrices returns the resolver's error, and tick
\* returns it; or it logs the missing bases, replaces the snapshot and
\* returns nil, and tick goes on
SetPricesAfterWait ==
    /\ SetPricesCanReturn
    /\ \E order \in TickOrders : \E computed \in {ComputedIn(order)} :
          IF SetPricesFails(WaitErr, computed)
          THEN /\ pc' = "sleep"
               /\ lastTick' = "error"
               /\ UNCHANGED <<prices, missingPrices>>
          ELSE /\ pc' = "tick"
               /\ prices' = computed.rates
               /\ missingPrices' = requiredRates \ DOMAIN computed.rates
               /\ UNCHANGED lastTick
    /\ SetPricesLocalsGone
    /\ UNCHANGED <<now, ticks, blockHeight, previousPrevote, previousVotePeriod,
                   priceProviders, published>>
    /\ StartAfterTick

\* SetPrices returns; the calls its fetch tasks gave up on are followed no
\* further
SetPricesReturns == SetPricesAfterWait /\ UNCHANGED outside

\* a missed vote that resets the vote period and keeps the prevote
TickMissedVote_KeepsPrevote ==
    /\ pc = "tick"
    /\ PastVotingPeriod(blockHeight)
    /\ previousVotePeriod' = UnixEpoch
    /\ lastTick' = "missed"
    /\ pc' = "sleep"
    /\ UNCHANGED <<now, ticks, blockHeight, priceProviders, prices, missingPrices,
                   published, tickLocals, previousPrevote>>
    /\ StartAfterTick
    /\ UNCHANGED outside

\* the tick is past the voting period: "missing vote during voting period"
TickMissedVote ==
    /\ pc = "tick"
    /\ PastVotingPeriod(blockHeight)
    /\ previousVotePeriod' = UnixEpoch
    /\ previousPrevote' = Nil
    /\ lastTick' = "missed"
    /\ pc' = "sleep"
    /\ UNCHANGED <<now, ticks, blockHeight, priceProviders, prices, missingPrices,
                   published, tickLocals>>
    /\ StartAfterTick
    /\ UNCHANGED outside

\* the tick submits a prevote; PutTx panics when the submission fails
\* (ok = FALSE), and the process ends
TickPrevote(ok) ==
    /\ pc = "tick"
    /\ ~PastVotingPeriod(blockHeight)
    /\ previousPrevote = Nil
    /\ LET salt == GenerateSalt(ticks)
           exchangeRatesStr == GenerateExchangeRatesString(GetPrices(prices))
           hash == GetAggregateVoteHash(salt, exchangeRatesStr, OperatorAccount)
       IN IF ok
          THEN /\ published' = Append(published, PrevoteMsg(hash))
               /\ previousVotePeriod' = blockHeight
               /\ previousPrevote' = Some(NewPrevote(salt, exchangeRatesStr, blockHeight))
               /\ lastTick' = "prevote"
               /\ pc' = "sleep"
          ELSE /\ pc' = "crashed"
               /\ lastTick' = "panic"
               /\ UNCHANGED <<published, previousVotePeriod, previousPrevote>>
    /\ UNCHANGED <<now, ticks, blockHeight, priceProviders, prices, missingPrices,
                   tickLocals>>
    /\ StartAfterTick
    /\ UNCHANGED outside

\* the tick submits the vote of the pending prevote; PutTx panics when the
\* submission fails (ok = FALSE), and the process ends
TickVote(ok) ==
    /\ pc = "tick"
    /\ ~PastVotingPeriod(blockHeight)
    /\ previousPrevote # Nil
    /\ LET exchangeRatesStr == GenerateExchangeRatesString(GetPrices(prices))
       IN IF ok
          THEN /\ published' = Append(published, VoteMsg(Val(previousPrevote), exchangeRatesStr))
               /\ previousPrevote' = Nil
               /\ previousVotePeriod' = UnixEpoch
               /\ lastTick' = "vote"
               /\ pc' = "sleep"
          ELSE /\ pc' = "crashed"
               /\ lastTick' = "panic"
               /\ UNCHANGED <<published, previousVotePeriod, previousPrevote>>
    /\ UNCHANGED <<now, ticks, blockHeight, priceProviders, prices, missingPrices,
                   tickLocals>>
    /\ StartAfterTick
    /\ UNCHANGED outside

Next ==
    \/ \E d \in Steps : TickSkip(d)
    \/ \E d \in Steps, f \in Providers, c \in SUBSET Providers : TickNewProviderFails(d, f, c)
    \/ \E d \in Steps : TickFetch(d)
    \/ \E p \in Providers : \E r \in Responses(p) : TaskMerge(p, r)
    \/ \E p \in Providers : \E r \in Responses(p) : TaskError(p, r)
    \/ \E p \in Providers : TaskTimeout(p)
    \/ \E p \in Providers : \E r \in Responses(p) : LateReturn(p, r)
    \/ SetPricesReturns
    \/ TickMissedVote
    \/ \E ok \in BOOLEAN : TickPrevote(ok)
    \/ \E ok \in BOOLEAN : TickVote(ok)

Spec == Init /\ [][Next]_vars

\* ------------------------------ the resolver, the filter and the merge alone

\* the maps from some of the keys K to the values V[k]
PartialMaps(K, V) ==
    UNION {{f \in [D -> UNION {V[k] : k \in D}] : \A k \in D : f[k] \in V[k]} :
           D \in SUBSET K}

Symbols(pairs) == {PairString(pairs[i]) : i \in 1..Len(pairs)}

\* ZeroProvider.Poll: the ticker it stores for each of its pairs
ZeroProviderTicker == TickerPrice(NewDec(0), NewDec(1), 1)

\* the tickers a provider may hold for a symbol
Quotes(symbol) ==
    CASE symbol = "BTCUSD" ->
           {ZeroProviderTicker, Tk(10, 1), Tk(40, 0), Tk(99, 1), Tk(100, 1), Tk(101, 1)}
      [] symbol = "USDTUSD" -> {ZeroProviderTicker, Tk(10, 1), Tk(40, 0)}
      [] symbol = "ATOMUSDT" -> {Tk(2, 1)}
      [] OTHER -> {Tk(1, 1)}

\* one pair quoted in USD, by four providers
DirectPairs == [p \in {"A", "B", "C", "D"} |-> <<CurrencyPair("BTC", "USD")>>]

DirectConfigs ==
    {[name |-> "direct", pairs |-> DirectPairs, thresholds |-> t, minima |-> m] :
        t \in {[BTC |-> NewDec(1)], [BTC |-> NewDec(1) \div 2]},
        m \in {EmptyMap, [BTC |-> 1]}}

\* a pair quoted in USDT, which is quoted in USD
CrossPairs ==
    [A |-> <<CurrencyPair("USDT", "USD")>>,
     B |-> <<CurrencyPair("USDT", "USD")>>,
     C |-> <<CurrencyPair("USDT", "USD"), CurrencyPair("ATOM", "USDT")>>,
     D |-> <<CurrencyPair("ATOM", "USDT")>>]

CrossConfigs ==
    {[name |-> "cross", pairs |-> CrossPairs, thresholds |-> t, minima |-> m] :
        t \in {EmptyMap, [USDT |-> NewDec(1) \div 2]},
        m \in {EmptyMap, [USDT |-> 3], [USDT |-> 1, ATOM |-> 1]}}

\* a chain of maxConversions + 1 pairs, each quoted in the base of the next,
\* sorted so that a pass converts the last pending pair only
ChainPairs ==
    [A |-> <<CurrencyPair("C1", "C2"), CurrencyPair("C2", "C3"), CurrencyPair("C3", "C4"),
             CurrencyPair("C4", "C5"), CurrencyPair("C5", "C6"), CurrencyPair("C6", "C7"),
             CurrencyPair("C7", "USD")>>]

ChainConfigs ==
    {[name |-> "chain", pairs |-> ChainPairs, thresholds |-> EmptyMap,
      minima |-> [d \in {"C2", "C3", "C4", "C5", "C6", "C7"} |-> 1]]}

\* a base quoted both in USD and in USDT by the same provider
BothPairs ==
    [A |-> <<CurrencyPair("USDT", "USD"), CurrencyPair("ATOM", "USD"),
             CurrencyPair("ATOM", "USDT")>>,
     B |-> <<CurrencyPair("USDT", "USD"), CurrencyPair("ATOM", "USDT")>>]

BothConfigs ==
    {[name |-> "both", pairs |-> BothPairs, thresholds |-> EmptyMap,
      minima |-> [USDT |-> 1, ATOM |-> 1]]}

\* two bases quoted both in USD and in USDT: their pairs in USDT are pending
\* after the first pass, when both bases have a USD rate
PendingPairs ==
    [A |-> <<CurrencyPair("ATOM", "USD"), CurrencyPair("ATOM", "USDT"),
             CurrencyPair("BTC", "USD"), CurrencyPair("BTC", "USDT"),
             CurrencyPair("USDT", "USD")>>]

PendingConfigs ==
    {[name |-> "pending", pairs |-> PendingPairs, thresholds |-> EmptyMap,
      minima |-> [USDT |-> 1, ATOM |-> 1, BTC |-> 1]]}

\* a base quoted both in USD and in ATOM by the same provider: its pair in
\* ATOM sorts before its pair in USD, and after ATOM/USD
EarlyPairs ==
    [A |-> <<CurrencyPair("ATOM", "USD"), CurrencyPair("BTC", "ATOM"),
             CurrencyPair("BTC", "USD")>>]

EarlyConfigs ==
    {[name |-> "early", pairs |-> EarlyPairs, thresholds |-> EmptyMap,
      minima |-> [ATOM |-> 1, BTC |-> 1]]}

ResolverConfigs ==
    DirectConfigs \cup CrossConfigs \cup ChainConfigs \cup BothConfigs \cup PendingConfigs
        \cup EarlyConfigs

\* the aggregated provider prices a tick may hand to the resolver: per provider
\* tickers for some of its symbols, and no entry for a provider without any
Aggregates(pairsOf) ==
    {[p \in {q \in DOMAIN m : DOMAIN m[q] # {}} |-> m[p]] :
        m \in {f \in [DOMAIN pairsOf ->
                        UNION {PartialMaps(Symbols(pairsOf[q]), [s \in Symbols(pairsOf[q]) |-> Quotes(s)]) : q \in DOMAIN pairsOf}] :
                 \A q \in DOMAIN pairsOf : DOMAIN f[q] \subseteq Symbols(pairsOf[q])}}

\* what GetTickerPrices may hand to the merge of a fetch task
Returned(symbol) == {ZeroTicker, ZeroProviderTicker, Tk(10, 1)}

\* the arguments of a call of the resolver with configuration cfg
ResolverInputs(cfg) ==
    {[kind |-> "resolve", config |-> cfg, prices |-> pp] : pp \in Aggregates(cfg.pairs)}

\* tickers whose prices differ in the last digit of the precision only
FineQuotes == {TickerPrice(1, NewDec(1), 1), TickerPrice(4, NewDec(1), 1)}

\* the arguments of a call of the deviation filter with threshold d
FilterInputs(d) ==
    {[kind |-> "filter", tickers |-> t, threshold |-> d] :
        t \in PartialMaps({"A", "B", "C", "D"}, [p \in {"A", "B", "C", "D"} |-> Quotes("BTCUSD")])
              \cup PartialMaps({"A", "B", "C", "D"}, [p \in {"A", "B", "C", "D"} |-> FineQuotes])}

\* the arguments of the merge of the fetch task of provider p
MergeInputs(p) ==
    {[kind |-> "merge", provider |-> p, returned |-> r] :
        r \in PartialMaps(Symbols(providerPairs[p]), [s \in Symbols(providerPairs[p]) |-> Returned(s)])}

\* the thresholds a configuration file may give
ThresholdStrings ==
    {DecimalString(FALSE, FALSE, 0, << >>)}
    \cup {DecimalString(TRUE, neg, int, frac) :
             neg \in BOOLEAN, int \in {0, 3, 4}, frac \in {<< >>, <<1>>}}

\* the lists of at most two elements of S
UpToTwo(S) == {<< >>} \cup {<<x>> : x \in S} \cup {<<x, y>> : x \in S, y \in S}

\* the decoded configurations handed to the checks of ParseConfig
ConfigInputs ==
    {[kind |-> "config", providers |-> ps, deviations |-> ds, overrides |-> os,
      required |-> rq] :
        ps \in {<<"kraken">>, <<"kraken", "nonesuch">>, <<"gate", "bitforex">>, <<"stride">>},
        ds \in UpToTwo(ThresholdStrings),
        os \in {<< >>, <<0>>, <<1>>},
        rq \in BOOLEAN}

CallInit ==
    /\ New
    /\ reader = "idle"
    /\ ctx = "live"
    /\ loop = Nil
    /\ result = Nil
    /\ \/ \E cfg \in ResolverConfigs : \E i \in ResolverInputs(cfg) : input = Some(i)
       \/ \E d \in {Nil, Some(NewDec(1) \div 2)} : \E i \in FilterInputs(d) : input = Some(i)
       \/ \E p \in Providers : \E i \in MergeInputs(p) : input = Some(i)
       \/ \E i \in ConfigInputs : input = Some(i)

\* convertTickersToUSD for a configuration
ResolveIn(pp, cfg, order) ==
    convertTickersToUSD(pp, cfg.pairs, cfg.thresholds, cfg.minima, order)

\* the conversion passes convertTickersToUSD makes
PassesIn(pp, cfg, order) ==
    IF DOMAIN pp = {} THEN 0
    ELSE ConvertLoop(0, UniquePairs(cfg.pairs, order), EmptyMap, PricesBySymbol(pp),
                     cfg.thresholds, cfg.minima, order).passes

\* the resolver is called and returns
Resolve(order) ==
    /\ input # Nil /\ result = Nil /\ Val(input).kind = "resolve"
    /\ result' = Some([usd |-> ResolveIn(Val(input).prices, Val(input).config, order),
                       passes |-> PassesIn(Val(input).prices, Val(input).config, order)])
    /\ UNCHANGED <<input, tickVars, mtx, reader, ctx, closer, history, abandoned, loop>>

\* the deviation filter is applied, and applied again to what it returned
Filter(order) ==
    /\ input # Nil /\ result = Nil /\ Val(input).kind = "filter"
    /\ \E once \in {FilterTickerDeviations(Val(input).tickers, Val(input).threshold, order)} :
          result' = Some([once |-> once,
                          twice |-> FilterTickerDeviations(once.filtered,
                                                           Val(input).threshold, order)])
    /\ UNCHANGED <<input, tickVars, mtx, reader, ctx, closer, history, abandoned, loop>>

\* a fetch task merges what its call returned into empty aggregated prices
Merge ==
    /\ input # Nil /\ result = Nil /\ Val(input).kind = "merge"
    /\ result' = Some([aggregated |->
                          MergeTickers(EmptyMap, Val(input).provider, Val(input).returned)])
    /\ UNCHANGED <<input, tickVars, mtx, reader, ctx, closer, history, abandoned, loop>>

\* ParseConfig checks a decoded configuration
Parse ==
    /\ input # Nil /\ result = Nil /\ Val(input).kind = "config"
    /\ result' = Some([err |-> ParseConfig(Val(input))])
    /\ UNCHANGED <<input, tickVars, mtx, reader, ctx, closer, history, abandoned, loop>>

CallNext ==
    \/ \E order \in RangeOrders : Resolve(order)
    \/ \E order \in RangeOrders : Filter(order)
    \/ Merge
    \/ Parse

\* the resolver, the filter and the merge, each called once on its own
SpecCalls == CallInit /\ [][CallNext]_vars

\* --------------------------------------------- the resolver, pair by pair

\* what the passes leave alone
resolverFrame == <<input, tickVars, mtx, reader, ctx, closer, history, abandoned>>

\* a call of the resolver on aggregated prices that are not empty
PassesInit ==
    /\ New
    /\ reader = "idle"
    /\ ctx = "live"
    /\ loop = Nil
    /\ result = Nil
    /\ \E cfg \in ResolverConfigs : \E i \in ResolverInputs(cfg) :
          DOMAIN i.prices # {} /\ input = Some(i)

\* the locals of convertTickersToUSD at the top of pass i, with the pairs
\* that are pending
AtTop(i, pending, usdRates) ==
    [at |-> "top", i |-> i, pairs |-> pending, k |-> 0,
     st |-> [usdRates |-> usdRates, unresolved |-> << >>, err |-> FALSE]]

\* convertTickersToUSD is called: the tickers are grouped by symbol and the
\* pairs of the configuration are listed, each symbol once
ResolverCalled(order) ==
    /\ input # Nil /\ result = Nil /\ loop = Nil
    /\ loop' = Some(AtTop(0, UniquePairs(Val(input).config.pairs, order), EmptyMap))
    /\ UNCHANGED <<result, resolverFrame>>

\* pass i begins: the pending pairs are sorted and reordered
PassBegins ==
    /\ loop # Nil /\ Val(loop).at = "top" /\ Val(loop).i < maxConversions
    /\ loop' = Some([Val(loop) EXCEPT
                        !.at = "pairs", !.k = 1,
                        !.pairs = Reorder(SortPairs(@), Val(loop).st.usdRates, << >>)])
    /\ UNCHANGED <<result, resolverFrame>>

\* the body of the loop over the pairs, for the pair at k
PairConverted(order) ==
    /\ loop # Nil /\ Val(loop).at = "pairs"
    /\ Val(loop).k <= Len(Val(loop).pairs) /\ ~Val(loop).st.err
    /\ loop' = Some([Val(loop) EXCEPT
                        !.k = @ + 1,
                        !.st = ConvertPair(Val(loop).pairs[Val(loop).k], @,
                                           PricesBySymbol(Val(input).prices),
                                           Val(input).config.thresholds,
                                           Val(input).config.minima, order)])
    /\ UNCHANGED <<result, resolverFrame>>

\* the pairs of pass i are done: the loop is left when nothing is unresolved
\* or nothing was resolved, else the unresolved pairs go to pass i + 1
PassEnds ==
    /\ loop # Nil /\ Val(loop).at = "pairs"
    /\ Val(loop).k > Len(Val(loop).pairs) /\ ~Val(loop).st.err
    /\ loop' = IF Len(Val(loop).st.unresolved) = 0
                    \/ Len(Val(loop).st.unresolved) = Len(Val(loop).pairs)
               THEN Some([Val(loop) EXCEPT !.at = "final", !.i = @ + 1])
               ELSE Some(AtTop(Val(loop).i + 1, Val(loop).st.unresolved,
                               Val(loop).st.usdRates))
    /\ UNCHANGED <<result, resolverFrame>>

\* i < maxConversions is false: the loop is left
PassesExhausted ==
    /\ loop # Nil /\ Val(loop).at = "top" /\ Val(loop).i >= maxConversions
    /\ loop' = Some([Val(loop) EXCEPT !.at = "final"])
    /\ UNCHANGED <<result, resolverFrame>>

\* "return nil, err" on the error of vwapRate
ResolverFails ==
    /\ loop # Nil /\ Val(loop).at = "pairs" /\ Val(loop).st.err
    /\ result' = Some([usd |-> [rates |-> EmptyMap, err |-> TRUE],
                       passes |-> Val(loop).i + 1])
    /\ loop' = Some([Val(loop) EXCEPT !.at = "returned"])
    /\ UNCHANGED resolverFrame

\* the final stage, and "return ratesDec, nil"
ResolverReturns(order) ==
    /\ loop # Nil /\ Val(loop).at = "final"
    /\ result' = Some([usd |-> FinalRates([usdRates |-> Val(loop).st.usdRates,
                                          err |-> FALSE],
                                         Val(input).config.thresholds,
                                         Val(input).config.minima, order),
                       passes |-> Val(loop).i])
    /\ loop' = Some([Val(loop) EXCEPT !.at = "returned"])
    /\ UNCHANGED resolverFrame

PassesNext ==
    \/ \E order \in TickOrders : ResolverCalled(order)
    \/ PassBegins
    \/ \E order \in TickOrders : PairConverted(order)
    \/ PassEnds
    \/ PassesExhausted
    \/ ResolverFails
    \/ \E order \in TickOrders : ResolverReturns(order)

\* a call of convertTickersToUSD followed through its passes
SpecPasses == PassesInit /\ [][PassesNext]_vars

\* ------------------------------------------- the oracle with a status server

\* a handler of the status server enters GetPrices: o.mtx.RLock(), then the
\* range over o.prices
ServerGetPrices ==
    /\ reader = "idle"
    /\ ~mtx.writer
    /\ reader' = "GetPrices"
    /\ mtx' = [mtx EXCEPT !.readers = @ + 1]
    /\ UNCHANGED <<tickVars, ctx, closer, history, abandoned, loop, input, result>>

\* a handler enters GetLastPriceSyncTimestamp: o.mtx.RLock(), then the read of
\* o.lastPriceSyncTS
ServerGetLastPriceSyncTimestamp ==
    /\ reader = "idle"
    /\ ~mtx.writer
    /\ reader' = "GetLastPriceSyncTimestamp"
    /\ mtx' = [mtx EXCEPT !.readers = @ + 1]
    /\ UNCHANGED <<tickVars, ctx, closer, history, abandoned, loop, input, result>>

\* the method returns: the deferred o.mtx.RUnlock()
ServerReturns ==
    /\ reader # "idle"
    /\ reader' = "idle"
    /\ mtx' = [mtx EXCEPT !.readers = @ - 1]
    /\ UNCHANGED <<tickVars, ctx, closer, history, abandoned, loop, input, result>>

\* the steps of the oracle, none of which calls o.mtx.Lock, and of the server
ServerNext ==
    \/ Next
    \/ ServerGetPrices
    \/ ServerGetLastPriceSyncTimestamp
    \/ ServerReturns

SpecServer == Init /\ [][ServerNext]_vars

\* ------------------------------------------- the calls on an adapter

\* the goroutines of the calls that the fetch tasks gave up on and that have
\* not returned outlive SetPrices: nothing waits for them or stops them
CallsGoOn ==
    abandoned' = [p \in Providers |->
                     abandoned[p] + (IF call[p] = "running" THEN 1 ELSE 0)]

\* SetPrices returns, and the calls its fetch tasks gave up on run on
SetPricesLeavesCalls ==
    /\ SetPricesAfterWait
    /\ CallsGoOn
    /\ UNCHANGED <<mtx, reader, ctx, closer, history, loop, input, result>>

\* a call of an earlier tick that was given up on returns: its goroutine
\* stores what it got in a variable nothing reads, and ends
AbandonedReturns(p) ==
    /\ pc # "crashed" /\ abandoned[p] > 0
    /\ abandoned' = [abandoned EXCEPT ![p] = @ - 1]
    /\ UNCHANGED <<tickVars, mtx, reader, ctx, closer, history, loop, input, result>>

\* the GetTickerPrices calls that run on the adapter of p: the one of the
\* fetch task of this tick, until it returns, and those of earlier ticks
InFlight(p) ==
    abandoned[p]
    + (IF task[p] = "select" \/ call[p] = "running" THEN 1 ELSE 0)

AdaptersNext ==
    \/ \E d \in Steps : TickSkip(d)
    \/ \E d \in Steps, f \in Providers, c \in SUBSET Providers : TickNewProviderFails(d, f, c)
    \/ \E d \in Steps : TickFetch(d)
    \/ \E p \in Providers : \E r \in Responses(p) : TaskMerge(p, r)
    \/ \E p \in Providers : \E r \in Responses(p) : TaskError(p, r)
    \/ \E p \in Providers : TaskTimeout(p)
    \/ \E p \in Providers : \E r \in Responses(p) : LateReturn(p, r)
    \/ SetPricesLeavesCalls
    \/ TickMissedVote
    \/ \E ok \in BOOLEAN : TickPrevote(ok)
    \/ \E ok \in BOOLEAN : TickVote(ok)
    \/ \E p \in Providers : AbandonedReturns(p)

\* the oracle with the calls on its adapters followed from tick to tick
SpecAdapters == Init /\ [][AdaptersNext]_vars

\* ------------------------------------------------- derivative symbols

\* a fetch task that puts every ticker into the aggregated prices
RouteTickers_NoRouting(aggregated, hist, providerName, pairs, returned, symbols) ==
    LET filtered == {x \in Symbols(pairs) : x \in DOMAIN returned /\ returned[x] # ZeroTicker}
        held == IF providerName \in DOMAIN aggregated THEN aggregated[providerName]
                ELSE EmptyMap
    IN [history |-> hist,
        providerPrices |->
            IF filtered = {} THEN aggregated
            ELSE Put(aggregated, providerName,
                     [x \in DOMAIN held \cup filtered |->
                         IF x \in filtered THEN returned[x] ELSE held[x]])]

\* the fetch task after <-ch, with o.derivativeSymbols = symbols: of the
\* tickers of the provider's pairs that are present and not the zero value,
\* those of a derivative symbol go to o.history.AddTickerPrice and the others
\* into providerPrices[providerName]
RouteTickers(aggregated, hist, providerName, pairs, returned, symbols) ==
    LET filtered == {x \in Symbols(pairs) : x \in DOMAIN returned /\ returned[x] # ZeroTicker}
        raw == filtered \cap symbols
        live == filtered \ symbols
        held == IF providerName \in DOMAIN aggregated THEN aggregated[providerName]
                ELSE EmptyMap
    IN [history |-> hist \cup {[pair |-> x, provider |-> providerName,
                                ticker |-> returned[x]] : x \in raw},
        providerPrices |->
            IF live = {} THEN aggregated
            ELSE Put(aggregated, providerName,
                     [x \in DOMAIN held \cup live |->
                         IF x \in live THEN returned[x] ELSE held[x]])]

\* the loop over o.derivativePairs after g.Wait(): synthesized[x] is what
\* GetPrices(x) returns, Nil for an error and else the tickers by source
\* name; each ticker goes into providerPrices[name][x]
HookTickers(aggregated, synthesized) ==
    LET got == {x \in DOMAIN synthesized : synthesized[x] # Nil}
        names == UNION {DOMAIN Val(synthesized[x]) : x \in got}
        entries(n) == {x \in got : n \in DOMAIN Val(synthesized[x])}
        held(n) == IF n \in DOMAIN aggregated THEN aggregated[n] ELSE EmptyMap
    IN [n \in DOMAIN aggregated \cup names |->
           [x \in DOMAIN held(n) \cup entries(n) |->
               IF x \in entries(n) THEN Val(synthesized[x])[n] ELSE held(n)[x]]]

\* a configuration with ATOM/USD as a twap of kraken and gate, and USDT/USD
\* quoted by gate and huobi
DerivativeProviderPairs ==
    [kraken |-> <<CurrencyPair("ATOM", "USD")>>,
     gate   |-> <<CurrencyPair("ATOM", "USD"), CurrencyPair("USDT", "USD")>>,
     huobi  |-> <<CurrencyPair("USDT", "USD")>>]

DerivativeSymbols == {"ATOMUSD"}

\* what the adapters return for a symbol, and what the twap of it may be
RawQuotes == [ATOMUSD |-> {ZeroTicker, Tk(2, 1), Tk(3, 1)}, USDTUSD |-> {Tk(10, 1)}]

TwapQuotes == {Tk(2, 1), Tk(5, 1)}

\* one run of SetPrices: what each call returns and what GetPrices returns
DerivativeInputs ==
    {[pairs |-> DerivativeProviderPairs, derivativeSymbols |-> DerivativeSymbols,
      returned |-> r, synthesized |-> [x \in DerivativeSymbols |-> t]] :
        r \in [Providers -> PartialMaps(DOMAIN RawQuotes, RawQuotes)],
        t \in {Nil} \cup {Some(m) : m \in PartialMaps({"kraken", "gate"},
                                                      [n \in {"kraken", "gate"} |-> TwapQuotes])}}

DerivativesInit ==
    /\ New
    /\ reader = "idle"
    /\ ctx = "live"
    /\ loop = Nil
    /\ result = Nil
    /\ \E i \in DerivativeInputs :
          /\ \A p \in Providers : DOMAIN i.returned[p] \subseteq Symbols(i.pairs[p])
          /\ input = Some(i)

derivativeFrame == <<input, result, tickVars, mtx, reader, ctx, closer, abandoned>>

\* SetPrices starts a fetch task for every provider
TasksStarted ==
    /\ input # Nil /\ loop = Nil
    /\ loop' = Some([at |-> "tasks", providerPrices |-> EmptyMap,
                     tasks |-> [p \in Providers |-> "select"]])
    /\ UNCHANGED <<history, derivativeFrame>>

\* the call of p returns and its fetch task, under mtx, routes the tickers
TaskRoutes(p) ==
    /\ loop # Nil /\ Val(loop).at = "tasks" /\ Val(loop).tasks[p] = "select"
    /\ \E r \in {RouteTickers(Val(loop).providerPrices, history, p, Val(input).pairs[p],
                               Val(input).returned[p], Val(input).derivativeSymbols)} :
          /\ history' = r.history
          /\ loop' = Some([Val(loop) EXCEPT !.providerPrices = r.providerPrices,
                                            !.tasks[p] = "merged"])
    /\ UNCHANGED derivativeFrame

\* the fetch task of p returns an error: the call failed or timed out
TaskGivesUp(p) ==
    /\ loop # Nil /\ Val(loop).at = "tasks" /\ Val(loop).tasks[p] = "select"
    /\ loop' = Some([Val(loop) EXCEPT !.tasks[p] = "error"])
    /\ UNCHANGED <<history, derivativeFrame>>

\* g.Wait() has returned; the hook puts in what the derivatives hold
HookRuns ==
    /\ loop # Nil /\ Val(loop).at = "tasks"
    /\ \A p \in Providers : Val(loop).tasks[p] # "select"
    /\ loop' = Some([Val(loop) EXCEPT
                        !.at = "hooked",
                        !.providerPrices = HookTickers(@, Val(input).synthesized)])
    /\ UNCHANGED <<history, derivativeFrame>>

DerivativesNext ==
    \/ TasksStarted
    \/ \E p \in Providers : TaskRoutes(p)
    \/ \E p \in Providers : TaskGivesUp(p)
    \/ HookRuns

\* the fetch tasks and the hook of one run of SetPrices
SpecDerivatives == DerivativesInit /\ [][DerivativesNext]_vars

\* ------------------------------------------------------------- shutdown

\* the parent cancels the context of Start: ctx.Done() is closed from now on
Cancel ==
    /\ ctx = "live"
    /\ ctx' = "done"
    /\ UNCHANGED <<tickVars, mtx, reader, closer, history, abandoned, loop, input, result>>

\* Start, at its select with ctx.Done() closed: the case of ctx.Done() is
\* taken, never the default one, and it calls o.closer.Close(); the loop goes
\* on to the same select
StartCtxDone ==
    /\ pc = "sleep" /\ ctx = "done"
    /\ closer' = TRUE
    /\ UNCHANGED <<tickVars, mtx, reader, ctx, history, abandoned, loop, input, result>>

\* the steps of a tick in progress other than the return of SetPrices
TickSteps ==
    \/ \E p \in Providers : \E r \in Responses(p) : TaskMerge(p, r)
    \/ \E p \in Providers : \E r \in Responses(p) : TaskError(p, r)
    \/ \E p \in Providers : TaskTimeout(p)
    \/ TickMissedVote
    \/ \E ok \in BOOLEAN : TickPrevote(ok)
    \/ \E ok \in BOOLEAN : TickVote(ok)

\* the tick in progress has a step to take
TickGoesOn == SetPricesCanReturn \/ ENABLED <<TickSteps>>_vars

\* what is left of the tick in progress: its fetch tasks in their select, the
\* calls they gave up on, and the part of tick that is still to run
TickMeasure ==
    2 * Cardinality({p \in Providers : task[p] = "select"})
    + Cardinality({p \in Providers : call[p] = "running"})
    + (IF pc = "wait" THEN 2 ELSE IF pc = "tick" THEN 1 ELSE 0)

ShutdownNext ==
    \/ Next
    \/ Cancel
    \/ StartCtxDone

\* the oracle whose context may be cancelled at any moment
SpecShutdown == Init /\ [][ShutdownNext]_vars

\* the same, when the goroutines of the oracle keep being scheduled: Start
\* at its select with the context done takes the case of ctx.Done(), a fetch
\* task in its select and tick past SetPrices take their step, and SetPrices
\* does not stay in g.Wait() when every fetch task has returned
SpecShutdownFair ==
    /\ SpecShutdown
    /\ WF_vars(StartCtxDone)
    /\ WF_vars(TickSteps)
    /\ []<>(~SetPricesCanReturn)

\* ---------------------------------------------------------------- properties

\* the scheduler states of the specification
Idle == previousPrevote = Nil

PrevoteSubmitted == previousPrevote # Nil

\* the time the pending prevote was submitted
WindowStart == Val(previousPrevote).SubmitBlockHeight

\* a step that hands a message to PutTx and sees it submitted
Publishes == Len(published') = Len(published) + 1

LastPublished == published[Len(published)]

\* a provider whose GetTickerPrices returned an error or ran into the timeout
ProviderFailed(p) == call[p] \in {"err", "running", "returned"}

\* C1: the first tick after New, when it does not fail in SetPrices and the
\* publisher works, has published a Prevote and left a prevote pending
C1_FirstTickPublishesPrevote ==
    (ticks = 1 /\ pc = "sleep" /\ lastTick # "error")
        => (/\ Len(published) = 1
            /\ published[1].msg = "prevote"
            /\ PrevoteSubmitted)

\* C2: every Vote published reveals the salt and the rates whose hash, with
\* the feeder, the Prevote published just before it carries; and while a
\* prevote is pending, what it records is what the last Prevote published
\* has hashed
C2_VoteRevealsPrevote ==
    /\ PrevoteSubmitted =>
          /\ published # << >>
          /\ LastPublished = PrevoteMsg(GetAggregateVoteHash(
                                 Val(previousPrevote).Salt,
                                 Val(previousPrevote).ExchangeRates, OperatorAccount))
    /\ \A i \in 1..Len(published) :
          published[i].msg = "vote" =>
             /\ i > 1
             /\ published[i - 1] = PrevoteMsg(GetAggregateVoteHash(
                                       published[i].Salt, published[i].ExchangeRates,
                                       published[i].Feeder))

\* a Vote has been published after the snapshot has changed
C2_Witness ==
    /\ lastTick = "vote" /\ published # << >>
    /\ LastPublished.msg = "vote"
    /\ LastPublished.ExchangeRates # GenerateExchangeRatesString(GetPrices(prices))

\* C3: a tick that starts with a prevote pending, before WindowStart +
\* VotePeriod, returns in that step: it publishes nothing and leaves the
\* pending prevote and the window start as they were
C3_EarlyTickChangesNothing ==
    [][(ticks' = ticks + 1 /\ PrevoteSubmitted /\ blockHeight' < WindowStart + VotePeriod)
          => (/\ pc' = "sleep"
              /\ published' = published
              /\ previousPrevote' = previousPrevote
              /\ previousVotePeriod' = previousVotePeriod)]_vars

\* a tick has been skipped with a prevote pending
C3_Witness ==
    /\ lastTick = "skip" /\ pc = "sleep" /\ PrevoteSubmitted
    /\ blockHeight > WindowStart /\ blockHeight < WindowStart + VotePeriod

\* C4: a Vote is published only by a tick at a time t with
\* WindowStart + VotePeriod <= t <= WindowStart + 2 * VotePeriod, and the
\* step that publishes it leaves the scheduler idle
C4_VoteInsideItsWindow ==
    [][(Publishes /\ published'[Len(published')].msg = "vote")
          => (/\ PrevoteSubmitted
              /\ WindowStart + VotePeriod <= blockHeight
              /\ blockHeight <= WindowStart + 2 * VotePeriod
              /\ previousPrevote' = Nil
              /\ previousVotePeriod' = UnixEpoch)]_vars

\* a tick has voted and the scheduler is idle
C4_Witness ==
    /\ lastTick = "vote" /\ pc = "sleep" /\ Idle
    /\ previousVotePeriod = UnixEpoch
    /\ Len(published) = 2

\* C5: a tick that runs with a prevote pending, later than WindowStart +
\* 2 * VotePeriod, returns with the prevote discarded and nothing published
C5_LateTickDiscardsPrevote ==
    [][(/\ pc \in {"wait", "tick"} /\ pc' = "sleep"
        /\ PrevoteSubmitted /\ blockHeight > WindowStart + 2 * VotePeriod)
          => (previousPrevote' = Nil /\ published' = published)]_vars

\* C6: when PutTx fails, the tick returns, the feeder sleeps until its next
\* tick, and the pending prevote and the window start are as before the tick
C6_FailedSubmitKeepsState ==
    [][(pc = "tick" /\ lastTick' = "panic")
          => (/\ pc' = "sleep"
              /\ previousPrevote' = previousPrevote
              /\ previousVotePeriod' = previousVotePeriod)]_vars

\* C7: when g.Wait() has returned in a tick in which a provider has failed,
\* SetPrices returns no error and the snapshot becomes what the resolver
\* computes from the tickers merged
C7_ProviderFailureKeepsSetPrices ==
    [][(pc = "wait" /\ pc' # "wait" /\ \E p \in Providers : ProviderFailed(p))
          => (pc' = "tick" /\ prices' = Computed.rates)]_vars

\* C8: a provider whose fetch task has taken the timeout has no tickers in
\* the aggregated prices, whether or not its call has returned since; and
\* the step in which a task takes the timeout changes no other task
C8_TimeoutContributesNothing ==
    [][/\ \A p \in Providers :
             task'[p] = "timeout" => p \notin DOMAIN providerPrices'
       /\ \A p \in Providers :
             (task[p] = "select" /\ task'[p] = "timeout")
                => \A q \in Providers \ {p} : task'[q] = task[q]]_vars

\* one task has timed out and its call has returned late, and the task of
\* another provider has merged its tickers
C8_Witness ==
    \E p \in Providers : \E q \in Providers \ {p} :
        /\ task[p] = "timeout" /\ call[p] = "returned"
        /\ p \notin DOMAIN providerPrices
        /\ task[q] = "merged" /\ q \in DOMAIN providerPrices

\* C9: a provider whose GetTickerPrices returned an error has no tickers in
\* the aggregated prices
C9_ErrorContributesNothing ==
    \A p \in Providers : call[p] = "err" => p \notin DOMAIN providerPrices

Resolved == input # Nil /\ result # Nil /\ Val(input).kind = "resolve"

Filtered == input # Nil /\ result # Nil /\ Val(input).kind = "filter"

Merged == input # Nil /\ result # Nil /\ Val(input).kind = "merge"

Parsed == input # Nil /\ result # Nil /\ Val(input).kind = "config"

\* C11: for the same aggregated provider prices, pairs, thresholds and
\* minima, convertTickersToUSD returns the same rates (and the same error)
\* whatever the order in which its ranges over maps run
C11_ResolverDeterministic ==
    Resolved =>
        \A order \in RangeOrders :
            ResolveIn(Val(input).prices, Val(input).config, order) = Val(result).usd

\* the resolver has returned rates for a converted base, from three tickers
\* of its quote and two of the base
C11_Witness ==
    /\ Resolved
    /\ Val(input).config.name = "cross"
    /\ DOMAIN Val(input).prices = {"A", "B", "C", "D"}
    /\ DOMAIN Val(input).prices["C"] = {"USDTUSD", "ATOMUSDT"}
    /\ \E p \in {"A", "B"} : Val(input).prices[p]["USDTUSD"] # Val(input).prices["C"]["USDTUSD"]
    /\ DOMAIN Val(result).usd.rates = {"USDT", "ATOM"}

\* the aggregated prices after the fetch tasks of the providers in tasks have
\* merged, one after the other, what their calls returned
RECURSIVE MergeAll(_, _, _)
MergeAll(aggregated, tasks, returned) ==
    IF tasks = << >> THEN aggregated
    ELSE MergeAll(MergeTickers(aggregated, Head(tasks), returned[Head(tasks)].prices),
                  Tail(tasks), returned)

\* C12: when SetPrices starts its fetch tasks, whichever of them get to merge
\* and whatever their calls return, they leave the same aggregated provider
\* prices in every order in which they can complete and merge; what the tasks
\* have merged is, per provider, what that provider's call returned; and the
\* snapshot SetPrices writes is that of the aggregated prices, whatever the
\* order of the resolver's ranges
C12_FetchOrderIndependent ==
    [][/\ (pc = "sleep" /\ pc' = "wait") =>
            \A merging \in SUBSET priceProviders :
                \A returned \in {f \in [merging -> UNION {Responses(p) : p \in merging}] :
                                    \A p \in merging : f[p] \in Responses(p)} :
                    \A order \in RangeOrders :
                        MergeAll(EmptyMap, RangeOver(merging, order), returned)
                            = MergeAll(EmptyMap, RangeOver(merging, 0), returned)
       /\ pc = "wait" =>
            /\ DOMAIN providerPrices = {p \in Providers : task[p] = "merged"}
            /\ \A p \in DOMAIN providerPrices :
                   \E r \in Responses(p) :
                       providerPrices[p] = MergeTickers(EmptyMap, p, r.prices)[p]
       /\ (pc = "wait" /\ pc' = "tick") => prices' = Computed.rates]_vars

\* the three fetch tasks have merged, in one of their orders
C12_Witness ==
    pc = "wait" /\ \A p \in Providers : task[p] = "merged"

\* the aggregated prices pp with the ticker t of provider p for symbol x added
WithTicker(pp, p, x, t) ==
    Put(pp, p, Put(Lookup(pp, p, EmptyMap), x, t))

\* the tickers that can be added to the aggregated prices pp of configuration
\* cfg: <<provider, symbol, ticker>> for a symbol the provider has no ticker of
Addable(pp, cfg) ==
    {c \in UNION {UNION {{<<p, x, t>> : t \in Quotes(x)} : x \in Symbols(cfg.pairs[p])} :
                   p \in DOMAIN cfg.pairs} :
        c[2] \notin DOMAIN Lookup(pp, c[1], EmptyMap)}

\* C13: a base that the resolver returns a rate for is still returned a rate
\* for when one provider ticker is added to the aggregated provider prices
C13_AddedTickerKeepsBases ==
    (Resolved /\ ~Val(result).usd.err) =>
        \A c \in Addable(Val(input).prices, Val(input).config) :
            DOMAIN Val(result).usd.rates
                \subseteq DOMAIN ResolveIn(WithTicker(Val(input).prices, c[1], c[2], c[3]),
                                           Val(input).config, 0).rates

\* C14: when the deviation filter succeeds, the filter applied again with
\* the same threshold to the tickers it kept keeps all of them
C14_FilterIdempotent ==
    (Filtered /\ ~Val(result).once.err) =>
        Val(result).twice.filtered = Val(result).once.filtered

\* C15: convertTickersToUSD returns after at most maxConversions (6)
\* conversion passes
C15_AtMostSixPasses ==
    Resolved => Val(result).passes <= maxConversions

\* the resolver has returned after its sixth pass with the head of the chain
\* of seven pairs still unresolved
C15_Witness ==
    /\ Resolved
    /\ Val(input).config.name = "chain"
    /\ Val(result).passes = maxConversions
    /\ DOMAIN Val(result).usd.rates = {"C2", "C3", "C4", "C5", "C6", "C7"}

\* scenario S1: A, B and C report BTC/USD = 100, 101, 99, volume 1 each
S1Prices ==
    [A |-> [BTCUSD |-> Tk(100, 1)], B |-> [BTCUSD |-> Tk(101, 1)],
     C |-> [BTCUSD |-> Tk(99, 1)]]

\* C16: in scenario S1 with deviation threshold 1.0 the deviation filter
\* keeps the tickers of all three providers and the price returned for BTC
\* is 100
C16_S1KeepsAllProviders ==
    (/\ Resolved
     /\ Val(input).config.name = "direct"
     /\ Val(input).config.thresholds = [BTC |-> NewDec(1)]
     /\ Val(input).prices = S1Prices)
    => /\ DOMAIN FilterTickerDeviations(PricesBySymbol(Val(input).prices)["BTCUSD"],
                                        LookupDec(Val(input).config.thresholds, "BTC"),
                                        0).filtered = {"A", "B", "C"}
       /\ Val(result).usd.rates = [BTC |-> NewDec(100)]

\* the providers that report a symbol in the aggregated prices pp
Reporting(pp, symbol) == {p \in DOMAIN pp : symbol \in DOMAIN pp[p]}

\* scenario S3: ProviderMinima(USDT) = 3, one provider reports USDT/USD and
\* ATOM/USDT is reported
OnlyOneUSDT ==
    /\ Resolved
    /\ Val(input).config.name = "cross"
    /\ Val(input).config.minima = [USDT |-> 3]
    /\ Cardinality(Reporting(Val(input).prices, "USDTUSD")) = 1
    /\ Reporting(Val(input).prices, "ATOMUSDT") # {}

C18_MergedPricesPositive ==
    Merged =>
        \A p \in DOMAIN Val(result).aggregated :
            \A x \in DOMAIN Val(result).aggregated[p] :
                Val(result).aggregated[p][x].Price > 0

\* C19: every rate the resolver returns is above zero
C19_RatesPositive ==
    Resolved =>
        \A d \in DOMAIN Val(result).usd.rates : Val(result).usd.rates[d] > 0

\* the resolver has returned no rate for BTC, whose three tickers pass the
\* filter with price zero
C19_Witness ==
    /\ Resolved
    /\ Val(input).config.name = "direct"
    /\ Reporting(Val(input).prices, "BTCUSD") = {"A", "B", "C"}
    /\ \A p \in {"A", "B", "C"} : Val(input).prices[p]["BTCUSD"] = ZeroProviderTicker
    /\ ~Val(result).usd.err
    /\ Val(result).usd.rates = EmptyMap

\* the step on which SetPrices assigns o.prices = computedPrices
WritesPrices == pc = "wait" /\ pc' = "tick"

\* the step on which Start assigns o.lastPriceSyncTS = time.Now()
WritesLastPriceSyncTS == pc # "crashed" /\ pc' = "sleep" /\ UNCHANGED reader

\* C20: the prices and the timestamp of the last sync are written under the
\* write lock of o.mtx, so that no write happens while a reader holds the lock
C20_WritesUnderWriteLock ==
    [][(WritesPrices \/ WritesLastPriceSyncTS) => mtx.readers = 0]_vars

\* C21: once the context is cancelled Start begins no tick, and the tick that
\* is in progress when it is cancelled goes on until it returns: cancelling
\* changes nothing of the tick, the tick always has a step to take, and each
\* of its steps brings its return nearer
C21_CancelStopsTicksOnly ==
    /\ [][(ctx = "done" /\ pc = "sleep") => UNCHANGED tickVars]_vars
    /\ [][ctx' # ctx => UNCHANGED tickVars]_vars
    /\ []((ctx = "done" /\ pc \in {"wait", "tick"}) => TickGoesOn)
    /\ [][(ctx = "done" /\ pc \in {"wait", "tick"} /\ ~UNCHANGED tickVars)
            => TickMeasure' < TickMeasure]_vars

\* the context is cancelled while the tick waits for its fetch tasks
C21_Witness == ctx = "done" /\ pc = "wait" /\ \E p \in Providers : task[p] = "select"

\* the threshold the string is written as lies outside (0, 3]
OutOfRange(str) ==
    /\ ~NewDecFromStr(str).err
    /\ (NewDecFromStr(str).dec <= 0 \/ NewDecFromStr(str).dec > NewDec(3))

\* C22: ParseConfig returns an error for every configuration that has a
\* deviation threshold outside (0, 3]
C22_ThresholdOutOfRangeRejected ==
    (Parsed /\ \E i \in 1..Len(Val(input).deviations) :
                   OutOfRange(Val(input).deviations[i]))
        => Val(result).err # ""

\* usdRates as the conversion passes leave it
UsdRatesIn(pp, cfg) ==
    IF DOMAIN pp = {} THEN EmptyMap
    ELSE ConvertLoop(0, UniquePairs(cfg.pairs, 0), EmptyMap, PricesBySymbol(pp),
                     cfg.thresholds, cfg.minima, 0).usdRates

\* the number of provider prices of denom that the final filter leaves
LeftAfterFilter(usdRates, cfg, denom) ==
    Cardinality(DOMAIN FilterTickerDeviations(usdRates[denom],
                                              LookupDec(cfg.thresholds, denom),
                                              0).filtered)

\* the bases of usdRates that the final filter leaves with fewer provider
\* prices than their minimum
Starved(usdRates, cfg) ==
    {d \in DOMAIN usdRates :
        LeftAfterFilter(usdRates, cfg, d) < Lookup(cfg.minima, d, defaultMinProviders)}

\* C23: a base left with fewer provider prices than its minimum after the
\* final filter has no rate in what the resolver returns
C23_StarvedBaseDropped ==
    (Resolved /\ ~Val(result).usd.err) =>
        \A d \in Starved(UsdRatesIn(Val(input).prices, Val(input).config),
                          Val(input).config) :
            d \notin DOMAIN Val(result).usd.rates

\* the bases of usdRates that the final stage has a rate for
Resolvable(usdRates, cfg) ==
    {d \in DOMAIN usdRates :
        FinalRate(d, usdRates[d], cfg.thresholds, cfg.minima, 0) # Nil}

\* C24: an error of the VWAP drops the base it is computed for and no more:
\* the resolver returns no error, and it returns a rate for every base that
\* the final stage has a rate for
C24_VWAPErrorDropsOneBase ==
    Resolved =>
        /\ ~Val(result).usd.err
        /\ Resolvable(UsdRatesIn(Val(input).prices, Val(input).config),
                      Val(input).config) \subseteq DOMAIN Val(result).usd.rates

\* C25: a tick that starts with a prevote pending, before WindowStart +
\* VotePeriod, runs SetPrices: it starts the fetch tasks, or it returns the
\* error of NewProvider
C25_EarlyTickCollectsPrices ==
    [][(ticks' = ticks + 1 /\ PrevoteSubmitted /\ blockHeight' < WindowStart + VotePeriod)
          => (pc' = "wait" \/ lastTick' = "error")]_vars

\* followed pair by pair, convertTickersToUSD returns what the call returns
PassesAgreeWithCall ==
    (loop # Nil /\ Val(loop).at = "returned") =>
        /\ Val(result).usd = ResolveIn(Val(input).prices, Val(input).config, 0)
        /\ Val(result).passes = PassesIn(Val(input).prices, Val(input).config, 0)

\* usdRates of the call that is followed, and of its next state
LoopRates == Val(loop).st.usdRates

LoopRatesNext == Val(loop').st.usdRates

\* C26: within one resolution every entry usdRates[B][P] stays as it was
\* first set: a step of the resolver changes and removes none
C26_UsdRatesOnlyGrows ==
    [][(loop # Nil /\ loop' # Nil) =>
          \A b \in DOMAIN LoopRates :
              /\ b \in DOMAIN LoopRatesNext
              /\ \A p \in DOMAIN LoopRates[b] :
                    /\ p \in DOMAIN LoopRatesNext[b]
                    /\ LoopRatesNext[b][p] = LoopRates[b][p]]_vars

\* ATOM/USDT has just been converted for providers A and B: A had a rate for
\* ATOM from ATOM/USD and keeps it, B gets the converted one
C26_Witness ==
    /\ loop # Nil /\ Val(loop).at = "pairs" /\ Val(loop).k > 1
    /\ Val(input).config.name = "both"
    /\ Val(loop).pairs[Val(loop).k - 1] = CurrencyPair("ATOM", "USDT")
    /\ DOMAIN Val(input).prices = {"A", "B"}
    /\ {"ATOMUSD", "ATOMUSDT"} \subseteq DOMAIN Val(input).prices["A"]
    /\ "ATOMUSDT" \in DOMAIN Val(input).prices["B"]
    /\ "ATOM" \in DOMAIN LoopRates
    /\ DOMAIN LoopRates["ATOM"] = {"A", "B"}
    /\ LoopRates["ATOM"]["A"] = Val(input).prices["A"]["ATOMUSD"]
    /\ LoopRates["ATOM"]["B"] # Val(input).prices["B"]["ATOMUSDT"]
    /\ LoopRates["ATOM"]["A"] # LoopRates["ATOM"]["B"]

\* the pair the step converts, when the step is one of the loop over the pairs
ConvertsPair ==
    /\ loop # Nil /\ Val(loop).at = "pairs" /\ loop' # Nil
    /\ Val(loop').k = Val(loop).k + 1

LoopPair == Val(loop).pairs[Val(loop).k]

\* the USD rates of the quote of the pair, none when usdRates has no entry
QuoteRates == Lookup(LoopRates, LoopPair.Quote, EmptyMap)

\* the pair is put on the list of the unresolved pairs and usdRates is left
\* as it is
Parked ==
    /\ LoopRatesNext = LoopRates
    /\ Val(loop').st.unresolved = Append(Val(loop).st.unresolved, LoopPair)
    /\ ~Val(loop').st.err

\* C27: a pair that is not quoted in USD, and whose quote has fewer USD rates
\* than its minimum (3 without an override), is parked and adds nothing to
\* usdRates
C27_ParkedBelowMinimum ==
    [][(/\ ConvertsPair
        /\ LoopPair.Quote # "USD"
        /\ Cardinality(DOMAIN QuoteRates)
              < Lookup(Val(input).config.minima, LoopPair.Quote, defaultMinProviders))
          => Parked]_vars

\* in its second pass the resolver has parked ATOM/USDT, for which there
\* are tickers, with two USD rates of USDT and no override of the minimum
C27_Witness ==
    /\ loop # Nil /\ Val(loop).at = "pairs" /\ Val(loop).i = 1 /\ Val(loop).k > 1
    /\ Val(input).config.name = "cross" /\ Val(input).config.minima = EmptyMap
    /\ Val(loop).pairs[Val(loop).k - 1] = CurrencyPair("ATOM", "USDT")
    /\ "ATOMUSDT" \in DOMAIN PricesBySymbol(Val(input).prices)
    /\ "USDT" \in DOMAIN LoopRates
    /\ Cardinality(DOMAIN LoopRates["USDT"]) = 2
    /\ Val(loop).st.unresolved = <<CurrencyPair("ATOM", "USDT")>>
    /\ "ATOM" \notin DOMAIN LoopRates

\* the tickers the providers reported for the pair
LoopTickers == Lookup(PricesBySymbol(Val(input).prices), PairString(LoopPair), EmptyMap)

\* every provider that reported the pair and had no USD rate of its base has
\* one now: its quoted price times rate, with its volume and its time
Contributed(rate) ==
    /\ ~Val(loop').st.err
    /\ Val(loop').st.unresolved = Val(loop).st.unresolved
    /\ \A p \in DOMAIN LoopTickers \ DOMAIN Lookup(LoopRates, LoopPair.Base, EmptyMap) :
          LoopRatesNext[LoopPair.Base][p]
             = [Price |-> RoundDiv(LoopTickers[p].Price * rate, DecUnit),
                Volume |-> LoopTickers[p].Volume,
                Time |-> LoopTickers[p].Time]

\* what the step does with the pair, given the filter f of the rates of its
\* quote and the VWAP v of what the filter returned
ConvertedWith(f, v) ==
    IF f.err /\ Cardinality(DOMAIN QuoteRates) >= 3 THEN Parked
    ELSE IF v.err THEN Val(loop').st.err
    ELSE Contributed(v.rate)

\* C28: a pair that is not quoted in USD and whose quote has its minimum of
\* USD rates is parked when the filter of these rates fails on 3 rates or
\* more; else each provider that reported it contributes its quoted price
\* times the VWAP of the filtered rates, with its volume and its time
C28_ConvertedByQuoteRate ==
    [][(/\ ConvertsPair
        /\ LoopPair.Quote # "USD"
        /\ Cardinality(DOMAIN QuoteRates)
              >= Lookup(Val(input).config.minima, LoopPair.Quote, defaultMinProviders))
          => \E f \in {FilterTickerDeviations(
                           QuoteRates,
                           LookupDec(Val(input).config.thresholds, LoopPair.Quote), 0)} :
                ConvertedWith(f, ComputeVWAP(MapValues(f.filtered, 0)))]_vars

\* ATOM/USDT has been converted with the USD rates 10, 10 and 40 of USDT,
\* of which the filter keeps the two of 10: D, which quoted 2, has 20
C28_Witness ==
    /\ loop # Nil /\ Val(loop).at = "pairs" /\ Val(loop).k > 1
    /\ Val(input).config.name = "cross"
    /\ Val(loop).pairs[Val(loop).k - 1] = CurrencyPair("ATOM", "USDT")
    /\ "USDT" \in DOMAIN LoopRates /\ "ATOM" \in DOMAIN LoopRates
    /\ DOMAIN LoopRates["USDT"] = {"A", "B", "C"}
    /\ LoopRates["USDT"]["A"] = Tk(10, 1)
    /\ LoopRates["USDT"]["B"] = Tk(10, 1)
    /\ LoopRates["USDT"]["C"] = Tk(40, 0)
    /\ "D" \in DOMAIN LoopRates["ATOM"]
    /\ LoopRates["ATOM"]["D"] = Tk(20, 1)

\* the pairs whose base has a USD rate come before the others, and the pairs
\* of each of the two groups are in ascending order of their symbols
OrderedForPass(pairs, usdRates) ==
    \A a \in 1..Len(pairs) : \A b \in (a + 1)..Len(pairs) :
        /\ (pairs[b].Base \in DOMAIN usdRates) => (pairs[a].Base \in DOMAIN usdRates)
        /\ ((pairs[a].Base \in DOMAIN usdRates) <=> (pairs[b].Base \in DOMAIN usdRates))
              => StringLess(PairString(pairs[a]), PairString(pairs[b]))

\* C29: when a pass begins, the pending pairs whose base has a USD rate come
\* first, and each of the two groups is in ascending order of symbol
C29_PassOrder ==
    (loop # Nil /\ Val(loop).at = "pairs" /\ Val(loop).k = 1)
        => OrderedForPass(Val(loop).pairs, LoopRates)

\* the prices of the tickers the filter is called with, and their deviation
FilterPrices == TickerPricesOf(MapValues(Val(input).tickers, 0))

\* the threshold the filter is called with, 1.0 when it is given none
FilterThreshold ==
    IF Val(input).threshold = Nil THEN NewDec(1) ELSE Val(input).threshold[1]

\* the providers whose price is within margin of mean, both ends included
Within(mean, margin) ==
    {p \in DOMAIN Val(input).tickers :
        /\ Val(input).tickers[p].Price >= mean - margin
        /\ Val(input).tickers[p].Price <= mean + margin}

\* with the deviation sd of the prices the filter has returned the tickers
\* within threshold times the deviation of the mean; with none, the error
\* and the tickers it was given
FilteredBy(sd) ==
    IF sd.err
    THEN Val(result).once.err /\ Val(result).once.filtered = Val(input).tickers
    ELSE /\ ~Val(result).once.err
         /\ DOMAIN Val(result).once.filtered
               = Within(sd.mean, RoundDiv(sd.deviation * FilterThreshold, DecUnit))
         /\ \A p \in DOMAIN Val(result).once.filtered :
               Val(result).once.filtered[p] = Val(input).tickers[p]

Invoked(p) == task[p] = "select"

\* C32: a tick that goes on to collect prices invokes GetTickerPrices for
\* each configured provider, the providers whose adapter it constructs
\* included
C32_EveryProviderInvoked ==
    [][(pc = "sleep" /\ pc' = "wait") => \A p \in Providers : Invoked(p)']_vars

\* C33: a step in which SetPrices returns an error, from NewProvider or from
\* the resolver, leaves the snapshot as it is, and so does every step of the
\* tick before it; the snapshot changes only in the step in which SetPrices
\* returns nil
C33_ErrorKeepsSnapshot ==
    [][/\ (pc \in {"sleep", "wait"} /\ lastTick' = "error" /\ pc' = "sleep")
          => prices' = prices
       /\ (pc = "sleep" /\ pc' = "wait") => prices' = prices
       /\ (pc = "wait" /\ pc' = "wait") => prices' = prices
       /\ prices' # prices => (SetPricesCanReturn /\ pc' = "tick")]_vars

\* SetPrices has returned the resolver's error in a tick that started with
\* prices in the snapshot, and the snapshot still holds them
C33_Witness ==
    /\ lastTick = "error" /\ pc = "sleep"
    /\ priceProviders = Providers
    /\ DOMAIN prices # {}

\* C37: a pending prevote is recorded only together with the time of its
\* submission in previousVotePeriod, which is never the reset value
\* time.Unix(0, 0); and while previousVotePeriod is the reset value no
\* prevote is pending
C37_PrevoteWithItsPeriod ==
    /\ PrevoteSubmitted =>
          /\ previousVotePeriod = WindowStart
          /\ previousVotePeriod # UnixEpoch
    /\ previousVotePeriod = UnixEpoch => Idle

\* a prevote is pending after an earlier one was voted or discarded, that
\* is, after previousVotePeriod has held the reset value
C37_Witness ==
    /\ PrevoteSubmitted /\ pc = "sleep"
    /\ ticks >= 2 /\ Len(published) = 1
    /\ previousVotePeriod = WindowStart

C40_FilterLeavesAProvider ==
    (/\ Filtered
     /\ DOMAIN Val(input).tickers # {}
     /\ FilterThreshold >= NewDec(1)
     /\ ~Val(result).once.err)
        => DOMAIN Val(result).once.filtered # {}

\* C39: NewProvider has a case for every name of SupportedProviders, and a
\* configuration ParseConfig accepts names no provider for which NewProvider
\* returns "provider not found"
C39_ValidatedProvidersConstructible ==
    Parsed =>
        \A i \in 1..Len(Val(input).providers) :
            /\ Val(input).providers[i] \in SupportedProviders
                  => NewProvider(Val(input).providers[i]).err = ""
            /\ Val(result).err = ""
                  => NewProvider(Val(input).providers[i]).err # "provider not found"

\* provider p has handed the resolver a ticker for base/USD and a ticker for
\* a pair of base that is quoted in something else
ReportsBoth(p, base) ==
    /\ PairString(CurrencyPair(base, "USD")) \in DOMAIN Val(input).prices[p]
    /\ \E k \in 1..Len(Val(input).config.pairs[p]) :
          /\ Val(input).config.pairs[p][k].Base = base
          /\ Val(input).config.pairs[p][k].Quote # "USD"
          /\ PairString(Val(input).config.pairs[p][k]) \in DOMAIN Val(input).prices[p]

\* C36: when the passes of a resolution are over, the entry usdRates[B][P]
\* of a provider P that reported both B/USD and B/Q, Q not USD, is the
\* ticker of B/USD
C36_DirectTickerRetained ==
    (loop # Nil /\ Val(loop).at \in {"final", "returned"} /\ ~Val(loop).st.err) =>
        \A p \in DOMAIN Val(input).prices : \A base \in DOMAIN LoopRates :
            (ReportsBoth(p, base) /\ p \in DOMAIN LoopRates[base])
                => LoopRates[base][p]
                      = Val(input).prices[p][PairString(CurrencyPair(base, "USD"))]

\* Start has returned to its caller
StartReturned == pc = "returned"

\* C34: once the context is cancelled, Start returns
C34_StartReturnsAfterCancel == (ctx = "done") ~> StartReturned

\* C35: at most one GetTickerPrices call runs on an adapter at any time
C35_OneCallPerAdapter == \A p \in Providers : InFlight(p) <= 1

\* the tickers of derivative symbols that the call of p returned
RawTickers(p) ==
    {[pair |-> x, provider |-> p, ticker |-> Val(input).returned[p][x]] :
        x \in {y \in Val(input).derivativeSymbols \cap DOMAIN Val(input).returned[p] :
                  Val(input).returned[p][y] # ZeroTicker}}

\* the entries of the aggregated prices under a derivative symbol
UnderDerivative(pp) ==
    {<<n, x>> \in (DOMAIN pp) \X Val(input).derivativeSymbols : x \in DOMAIN pp[n]}

\* C31: the raw ticker of a derivative symbol that a fetch task got is in the
\* history store; the fetch tasks put nothing under a derivative symbol into
\* the aggregated prices, and after the hook the aggregated prices hold under
\* that symbol the synthesized tickers and no other
C31_DerivativeTickersRouted ==
    (input # Nil /\ loop # Nil) =>
        /\ \A p \in Providers :
              Val(loop).tasks[p] = "merged" => RawTickers(p) \subseteq history
        /\ Val(loop).at = "tasks" => UnderDerivative(Val(loop).providerPrices) = {}
        /\ Val(loop).at = "hooked" =>
              \A e \in UnderDerivative(Val(loop).providerPrices) :
                  /\ Val(input).synthesized[e[2]] # Nil
                  /\ e[1] \in DOMAIN Val(Val(input).synthesized[e[2]])
                  /\ Val(loop).providerPrices[e[1]][e[2]] =
                        Val(Val(input).synthesized[e[2]])[e[1]]

\* kraken and gate both returned ATOM/USD at 3, gate also USDT/USD; the hook
\* has put the twap of kraken, 5, into the aggregated prices
C31_Witness ==
    /\ input # Nil /\ loop # Nil
    /\ Val(loop).at = "hooked"
    /\ Val(loop).tasks = [kraken |-> "merged", gate |-> "merged", huobi |-> "error"]
    /\ RawTickers("kraken") = {[pair |-> "ATOMUSD", provider |-> "kraken", ticker |-> Tk(3, 1)]}
    /\ RawTickers("gate") = {[pair |-> "ATOMUSD", provider |-> "gate", ticker |-> Tk(3, 1)]}
    /\ Cardinality(history) = 2
    /\ Val(loop).providerPrices =
          [kraken |-> [ATOMUSD |-> Tk(5, 1)], gate |-> [USDTUSD |-> Tk(10, 1)]]

====
